---------------------------- MODULE Spec2Model ----------------------------
(***************************************************************************)
(* Model of the claim chatbot: the LangGraph workflow of                   *)
(* langgraph_workflow.py, its nodes (nodes.py), the pydantic models        *)
(* (models.py), the SQL executor (db_utils.py) and the record synthesizer  *)
(* (synthesizer.py).                                                       *)
(*                                                                         *)
(* Representation of Python values:                                        *)
(*   - Optional[x]: None is <<>>, a present value v is <<v>>.              *)
(*   - data strings (field values, ids, query details): TLA+ strings,      *)
(*     "" being the empty string.                                          *)
(*   - composed text (error messages, responses): a sequence of non-empty  *)
(*     fragments; concatenation is \o and "" is <<>>.                      *)
(*   - SQL text: a sequence of one-character strings.                      *)
(*   - dict: a sequence of <<key, value>> pairs (insertion order).         *)
(***************************************************************************)
EXTENDS Integers, Sequences, FiniteSets, TLC

(* ------------------------------ bounds -------------------------------- *)

\* Turns a session may start (spec Spec).
MaxTurns == 2

(* --------------------------- Python helpers --------------------------- *)

None == <<>>

Some(v) == <<v>>

\* Fragment rendering of a data string: "" contributes nothing.
F(s) == IF s = "" THEN <<>> ELSE <<s>>

\* Truthiness of an Optional[str] (None and "" are falsy).
TruthyStr(o) == o # <<>> /\ o[1] # ""

\* Truthiness of an Optional text (None and empty text are falsy).
TruthyText(o) == o # <<>> /\ o[1] # <<>>

\* Truthiness of an Optional[BaseModel]: any instance is truthy.
TruthyObj(o) == o # <<>>

\* Truthiness of an Optional[list] / Optional[dict]: None and empty are falsy.
TruthySeq(o) == o # <<>> /\ o[1] # <<>>

LowerChars == <<"a","b","c","d","e","f","g","h","i","j","k","l","m",
                "n","o","p","q","r","s","t","u","v","w","x","y","z">>

UpperChars == <<"A","B","C","D","E","F","G","H","I","J","K","L","M",
                "N","O","P","Q","R","S","T","U","V","W","X","Y","Z">>

\* str.upper() on one character.
UpperChar(c) ==
    IF \E i \in 1..Len(LowerChars) : LowerChars[i] = c
    THEN UpperChars[CHOOSE i \in 1..Len(LowerChars) : LowerChars[i] = c]
    ELSE c

\* str.upper()
Upper(s) == [i \in 1..Len(s) |-> UpperChar(s[i])]

IsSpace(c) == c \in {" ", "\n", "\t"}

\* str.strip(): drop leading and trailing whitespace.
Strip(s) ==
    IF \A i \in 1..Len(s) : IsSpace(s[i]) THEN <<>>
    ELSE LET lo == CHOOSE i \in 1..Len(s) :
                       ~IsSpace(s[i]) /\ \A j \in 1..(i-1) : IsSpace(s[j])
             hi == CHOOSE i \in 1..Len(s) :
                       ~IsSpace(s[i]) /\ \A j \in (i+1)..Len(s) : IsSpace(s[j])
         IN SubSeq(s, lo, hi)

\* str.startswith(prefix)
StartsWith(s, prefix) ==
    Len(s) >= Len(prefix) /\ SubSeq(s, 1, Len(prefix)) = prefix

\* `needle in s` for strings
Contains(s, needle) ==
    \E i \in 1..(Len(s) - Len(needle) + 1) :
        SubSeq(s, i, i + Len(needle) - 1) = needle

(* ------------------------------ models.py ----------------------------- *)

KW_SELECT == <<"S","E","L","E","C","T">>

forbidden_keywords ==
    { <<"D","E","L","E","T","E">>, <<"U","P","D","A","T","E">>,
      <<"I","N","S","E","R","T">>, <<"D","R","O","P">>,
      <<"A","L","T","E","R">>, <<"C","R","E","A","T","E">>,
      <<"T","R","U","N","C","A","T","E">> }

\* Faulty variant of ensure_select_statement: the forbidden-keyword check is
\* left out.
ensure_select_statement_PrefixOnly(v) ==
    /\ Len(v) >= 1
    /\ StartsWith(Upper(Strip(v)), KW_SELECT)

\* SQLQuery.sql: Annotated[str, MinLen(1)] and the field validator; TRUE when
\* the value is accepted.
ensure_select_statement(v) ==
    /\ Len(v) >= 1
    /\ StartsWith(Upper(Strip(v)), KW_SELECT)
    /\ ~\E keyword \in forbidden_keywords : Contains(Upper(v), keyword)

SQLQuery(sql) == [type |-> "SQLQuery", sql |-> sql]

InvalidSQLRequest(error_message) ==
    [type |-> "InvalidSQLRequest", error_message |-> error_message]

Intent(action, query_details) ==
    [action |-> action, query_details |-> query_details]

\* isinstance(o, SQLQuery) on an Optional[SQLResponse]
IsSQLQuery(o) == o # <<>> /\ o[1].type = "SQLQuery"

\* isinstance(o, InvalidSQLRequest) on an Optional[SQLResponse]
IsInvalidSQLRequest(o) == o # <<>> /\ o[1].type = "InvalidSQLRequest"

(* ---------------------------- synthesizer.py -------------------------- *)

ADJUSTER_NAMES ==
    << "Ryan Cooper", "Olivia Harris", "Daniel Brooks", "Chloe Bennett",
       "Ethan Carter", "Mia Foster", "Noah Evans", "Ava Green",
       "Liam Jenkins", "Isabella King" >>

STATUSES == << "Submitted", "Approved", "Rejected", "Repair in Progress" >>

\* dict in insertion order: <<company, offices>>
COMPANY_OFFICES ==
    << << "Alpha Insurance",
          << "Chicago Office", "Los Angeles Office", "New York Office" >> >>,
       << "Beta Insurance",
          << "Houston Office", "Miami Office", "Phoenix Office" >> >>,
       << "Delta Insurance",
          << "Atlanta Office", "Dallas Office", "San Francisco Office" >> >>,
       << "Gamma Insurance",
          << "Boston Office", "Denver Office", "Seattle Office" >> >> >>

DEFAULT_VEHICLES ==
    << << "Toyota", "Camry", 2020 >>,
       << "Honda", "Civic", 2021 >>,
       << "Ford", "F-150", 2019 >>,
       << "Chevrolet", "Malibu", 2022 >>,
       << "Nissan", "Altima", 2018 >>,
       << "BMW", "3 Series", 2020 >>,
       << "Mercedes-Benz", "C-Class", 2021 >>,
       << "Tesla", "Model 3", 2023 >>,
       << "Subaru", "Outback", 2019 >> >>

INCIDENT_IMPACT_MAPPING ==
    <<
      \* ("Rear-ended at a traffic signal", "Rear bumper")
      << <<"R","e","a","r","-","e","n","d","e","d"," ","a","t"," ","a"," ","t","r","a","f","f","i","c"," ","s","i","g","n","a","l">>,
         "Rear bumper" >>,
      \* ("Hit a parked car while reversing", "Rear bumper")
      << <<"H","i","t"," ","a"," ","p","a","r","k","e","d"," ","c","a","r"," ","w","h","i","l","e"," ","r","e","v","e","r","s","i","n","g">>,
         "Rear bumper" >>,
      \* ("Backed into a pole", "Rear bumper")
      << <<"B","a","c","k","e","d"," ","i","n","t","o"," ","a"," ","p","o","l","e">>,
         "Rear bumper" >>,
      \* ("Minor collision in parking lot, front impact", "Front bumper")
      << <<"M","i","n","o","r"," ","c","o","l","l","i","s","i","o","n"," ","i","n"," ","p","a","r","k","i","n","g"," ","l","o","t",","," ","f","r","o","n","t"," ","i","m","p","a","c","t">>,
         "Front bumper" >>,
      \* ("Hit a deer crossing the road", "Front bumper")
      << <<"H","i","t"," ","a"," ","d","e","e","r"," ","c","r","o","s","s","i","n","g"," ","t","h","e"," ","r","o","a","d">>,
         "Front bumper" >>,
      \* ("Collision with debris on highway", "Front bumper/Underbody")
      << <<"C","o","l","l","i","s","i","o","n"," ","w","i","t","h"," ","d","e","b","r","i","s"," ","o","n"," ","h","i","g","h","w","a","y">>,
         "Front bumper/Underbody" >>,
      \* ("Side-swiped driver side while parked", "Driver side")
      << <<"S","i","d","e","-","s","w","i","p","e","d"," ","d","r","i","v","e","r"," ","s","i","d","e"," ","w","h","i","l","e"," ","p","a","r","k","e","d">>,
         "Driver side" >>,
      \* ("T-boned on the driver side at intersection", "Driver side")
      << <<"T","-","b","o","n","e","d"," ","o","n"," ","t","h","e"," ","d","r","i","v","e","r"," ","s","i","d","e"," ","a","t"," ","i","n","t","e","r","s","e","c","t","i","o","n">>,
         "Driver side" >>,
      \* ("Another car merged into driver side lane", "Driver side")
      << <<"A","n","o","t","h","e","r"," ","c","a","r"," ","m","e","r","g","e","d"," ","i","n","t","o"," ","d","r","i","v","e","r"," ","s","i","d","e"," ","l","a","n","e">>,
         "Driver side" >>,
      \* ("Side-swiped passenger side", "Passenger side")
      << <<"S","i","d","e","-","s","w","i","p","e","d"," ","p","a","s","s","e","n","g","e","r"," ","s","i","d","e">>,
         "Passenger side" >>,
      \* ("Scraped passenger side against wall", "Passenger side")
      << <<"S","c","r","a","p","e","d"," ","p","a","s","s","e","n","g","e","r"," ","s","i","d","e"," ","a","g","a","i","n","s","t"," ","w","a","l","l">>,
         "Passenger side" >>,
      \* ("Object fell on roof", "Roof")
      << <<"O","b","j","e","c","t"," ","f","e","l","l"," ","o","n"," ","r","o","o","f">>,
         "Roof" >>,
      \* ("Hail damage", "Roof/Hood/Trunk")
      << <<"H","a","i","l"," ","d","a","m","a","g","e">>,
         "Roof/Hood/Trunk" >>,
      \* ("Windshield cracked by rock from truck", "Windshield")
      << <<"W","i","n","d","s","h","i","e","l","d"," ","c","r","a","c","k","e","d"," ","b","y"," ","r","o","c","k"," ","f","r","o","m"," ","t","r","u","c","k">>,
         "Windshield" >>,
      \* ("Hit a pothole causing tire/wheel damage", "Wheel/Suspension")
      << <<"H","i","t"," ","a"," ","p","o","t","h","o","l","e"," ","c","a","u","s","i","n","g"," ","t","i","r","e","/","w","h","e","e","l"," ","d","a","m","a","g","e">>,
         "Wheel/Suspension" >>,
      \* ("Skidded on ice and hit guardrail", "Front/Side")
      << <<"S","k","i","d","d","e","d"," ","o","n"," ","i","c","e"," ","a","n","d"," ","h","i","t"," ","g","u","a","r","d","r","a","i","l">>,
         "Front/Side" >>,
      \* ("Hydroplaned into a ditch", "Underbody/Side")
      << <<"H","y","d","r","o","p","l","a","n","e","d"," ","i","n","t","o"," ","a"," ","d","i","t","c","h">>,
         "Underbody/Side" >>,
      \* ("Vandalism - keyed along the side", "Driver side/Passenger side")
      << <<"V","a","n","d","a","l","i","s","m"," ","-"," ","k","e","y","e","d"," ","a","l","o","n","g"," ","t","h","e"," ","s","i","d","e">>,
         "Driver side/Passenger side" >>,
      \* ("Attempted theft, broken window", "Driver side window/Passenger side window")
      << <<"A","t","t","e","m","p","t","e","d"," ","t","h","e","f","t",","," ","b","r","o","k","e","n"," ","w","i","n","d","o","w">>,
         "Driver side window/Passenger side window" >>,
      \* ("Fender bender in slow traffic", "Front bumper/Rear bumper")
      << <<"F","e","n","d","e","r"," ","b","e","n","d","e","r"," ","i","n"," ","s","l","o","w"," ","t","r","a","f","f","i","c">>,
         "Front bumper/Rear bumper" >>
    >>

\* list(set(item[1] for item in INCIDENT_IMPACT_MAPPING)): the order of the
\* list is unspecified, random.choice over it is a choice in the set.
DEFAULT_IMPACTS ==
    { INCIDENT_IMPACT_MAPPING[i][2] : i \in 1..Len(INCIDENT_IMPACT_MAPPING) }

\* str.lower() on one character.
LowerChar(c) ==
    IF \E i \in 1..Len(UpperChars) : UpperChars[i] = c
    THEN LowerChars[CHOOSE i \in 1..Len(UpperChars) : UpperChars[i] = c]
    ELSE c

\* str.lower()
Lower(s) == [i \in 1..Len(s) |-> LowerChar(s[i])]

\* `company in COMPANY_OFFICES`
IsKnownCompany(company) ==
    \E i \in 1..Len(COMPANY_OFFICES) : COMPANY_OFFICES[i][1] = company

\* COMPANY_OFFICES[company], as the set used by `office in ...`
OfficesOf(company) ==
    LET i == CHOOSE i \in 1..Len(COMPANY_OFFICES) :
                 COMPANY_OFFICES[i][1] = company
    IN COMPANY_OFFICES[i][2]

InSeq(x, s) == \E i \in 1..Len(s) : s[i] = x

\* The values random and Faker hand out in one call of synthesize_claim:
\*   name          fake.name()
\*   policy_num    generate_policy_number()
\*   vehicle       index drawn by generate_vehicle()
\*   inc_date      generate_incident_date()
\*   incident      index drawn by generate_incident_and_impact()
\*   impact        random.choice(DEFAULT_IMPACTS)
\*   adjuster      index drawn in ADJUSTER_NAMES
\*   status        index drawn in STATUSES
\*   company       index drawn in list(COMPANY_OFFICES.keys())
\*   office        index drawn in COMPANY_OFFICES[company]
FakeNames == { "Jane Roe", "Max Mustermann" }

PolicyNumbers == { "POL-100000", "POL-999999" }

IncidentDates == { "2025-01-01T00:00:00", "2025-03-31T23:59:59" }

DrawSpace ==
    [ name : FakeNames, policy_num : PolicyNumbers,
      vehicle : 1..Len(DEFAULT_VEHICLES), inc_date : IncidentDates,
      incident : 1..Len(INCIDENT_IMPACT_MAPPING), impact : DEFAULT_IMPACTS,
      adjuster : 1..Len(ADJUSTER_NAMES), status : 1..Len(STATUSES),
      company : 1..Len(COMPANY_OFFICES), office : 1..3 ]

\* desc_map.lower() of every row of INCIDENT_IMPACT_MAPPING
LoweredPhrases ==
    [ i \in 1..Len(INCIDENT_IMPACT_MAPPING) |->
          Lower(INCIDENT_IMPACT_MAPPING[i][1]) ]

\* Faulty variant of the matching loop: only a phrase contained in the
\* description counts, a description contained in a phrase does not.
FirstImpactMatch_OneDirection(inc_desc) ==
    LET lowered == Lower(inc_desc)
        hit(i) == Contains(lowered, LoweredPhrases[i])
        hits == { i \in 1..Len(INCIDENT_IMPACT_MAPPING) : hit(i) }
    IN IF hits = {} THEN 0
       ELSE CHOOSE i \in hits : \A j \in hits : i <= j

\* for desc_map, impact_map in INCIDENT_IMPACT_MAPPING: first row whose phrase
\* contains the description or is contained in it (lower-cased); 0 if none.
FirstImpactMatch(inc_desc) ==
    LET lowered == Lower(inc_desc)
        hit(i) == \/ Contains(lowered, LoweredPhrases[i])
                  \/ Contains(LoweredPhrases[i], lowered)
        hits == { i \in 1..Len(INCIDENT_IMPACT_MAPPING) : hit(i) }
    IN IF hits = {} THEN 0
       ELSE CHOOSE i \in hits : \A j \in hits : i <= j

\* for comp, offices in COMPANY_OFFICES.items(): first company listing office;
\* 0 if none.
FirstCompanyWithOffice(office) ==
    LET hits == { i \in 1..Len(COMPANY_OFFICES) :
                      InSeq(office, COMPANY_OFFICES[i][2]) }
    IN IF hits = {} THEN 0
       ELSE CHOOSE i \in hits : \A j \in hits : i <= j

\* `a or b` on an Optional[str] a
OrStr(o, alt) == IF TruthyStr(o) THEN o[1] ELSE alt

\* Faulty variant: `if extracted_desc is not None`, so that an empty
\* description is kept and matched instead of being replaced.
SynthIncident_EmptyDescKept(p, d) ==
    LET extracted_desc == p.incident_description
        extracted_impact == p.point_of_impact
    IN IF extracted_desc # <<>>
       THEN LET inc_desc == extracted_desc[1]
                m == FirstImpactMatch(inc_desc)
            IN [ inc_desc |-> inc_desc,
                 impact |-> IF TruthyStr(extracted_impact)
                            THEN extracted_impact[1]
                            ELSE IF m # 0 THEN INCIDENT_IMPACT_MAPPING[m][2]
                                 ELSE d.impact ]
       ELSE [ inc_desc |-> INCIDENT_IMPACT_MAPPING[d.incident][1],
              impact |-> IF TruthyStr(extracted_impact)
                         THEN extracted_impact[1]
                         ELSE INCIDENT_IMPACT_MAPPING[d.incident][2] ]

\* Faulty variant: the impact matched from the description beats the
\* extracted impact.
SynthIncident_MatchBeatsImpact(p, d) ==
    LET extracted_desc == p.incident_description
        extracted_impact == p.point_of_impact
    IN IF TruthyText(extracted_desc)
       THEN LET inc_desc == extracted_desc[1]
                m == FirstImpactMatch(inc_desc)
            IN [ inc_desc |-> inc_desc,
                 impact |-> IF m # 0 THEN INCIDENT_IMPACT_MAPPING[m][2]
                            ELSE IF TruthyStr(extracted_impact)
                                 THEN extracted_impact[1]
                                 ELSE d.impact ]
       ELSE [ inc_desc |-> INCIDENT_IMPACT_MAPPING[d.incident][1],
              impact |-> IF TruthyStr(extracted_impact)
                         THEN extracted_impact[1]
                         ELSE INCIDENT_IMPACT_MAPPING[d.incident][2] ]

\* Faulty variant: without a description the impact is drawn on its own
\* from DEFAULT_IMPACTS instead of being taken from the drawn row.
SynthIncident_ImpactDrawnApart(p, d) ==
    LET extracted_desc == p.incident_description
        extracted_impact == p.point_of_impact
    IN IF TruthyText(extracted_desc)
       THEN LET inc_desc == extracted_desc[1]
                m == FirstImpactMatch(inc_desc)
            IN [ inc_desc |-> inc_desc,
                 impact |-> IF TruthyStr(extracted_impact)
                            THEN extracted_impact[1]
                            ELSE IF m # 0 THEN INCIDENT_IMPACT_MAPPING[m][2]
                                 ELSE d.impact ]
       ELSE [ inc_desc |-> INCIDENT_IMPACT_MAPPING[d.incident][1],
              impact |-> IF TruthyStr(extracted_impact)
                         THEN extracted_impact[1]
                         ELSE d.impact ]

\* incident description and point of impact (synthesizer.py 94-124)
SynthIncident(p, d) ==
    LET extracted_desc == p.incident_description
        extracted_impact == p.point_of_impact
    IN IF TruthyText(extracted_desc)
       THEN LET inc_desc == extracted_desc[1]
                m == FirstImpactMatch(inc_desc)
            IN [ inc_desc |-> inc_desc,
                 impact |-> IF TruthyStr(extracted_impact)
                            THEN extracted_impact[1]
                            ELSE IF m # 0 THEN INCIDENT_IMPACT_MAPPING[m][2]
                                 ELSE d.impact ]
       ELSE [ inc_desc |-> INCIDENT_IMPACT_MAPPING[d.incident][1],
              impact |-> IF TruthyStr(extracted_impact)
                         THEN extracted_impact[1]
                         ELSE INCIDENT_IMPACT_MAPPING[d.incident][2] ]

\* Faulty variant: for a known company an extracted office is kept without
\* looking it up in the company's list.
SynthCompanyOffice_OfficeKept(p, d) ==
    LET company == p.company
        office == p.claim_office
        drawnCompany == COMPANY_OFFICES[d.company][1]
    IN IF TruthyStr(company) /\ IsKnownCompany(company[1])
       THEN [ company |-> company[1],
              office |-> IF ~TruthyStr(office)
                         THEN OfficesOf(company[1])[d.office]
                         ELSE office[1] ]
       ELSE IF TruthyStr(company)
       THEN [ company |-> drawnCompany,
              office |-> OfficesOf(drawnCompany)[d.office] ]
       ELSE IF ~TruthyStr(office)
       THEN [ company |-> drawnCompany,
              office |-> OfficesOf(drawnCompany)[d.office] ]
       ELSE LET c == FirstCompanyWithOffice(office[1])
            IN IF c # 0
               THEN [ company |-> COMPANY_OFFICES[c][1], office |-> office[1] ]
               ELSE [ company |-> drawnCompany,
                      office |-> OfficesOf(drawnCompany)[d.office] ]

\* Faulty variant: for a known company the office is always drawn again.
SynthCompanyOffice_AlwaysRedraw(p, d) ==
    LET company == p.company
        office == p.claim_office
        drawnCompany == COMPANY_OFFICES[d.company][1]
    IN IF TruthyStr(company) /\ IsKnownCompany(company[1])
       THEN [ company |-> company[1],
              office |-> OfficesOf(company[1])[d.office] ]
       ELSE IF TruthyStr(company)
       THEN [ company |-> drawnCompany,
              office |-> OfficesOf(drawnCompany)[d.office] ]
       ELSE IF ~TruthyStr(office)
       THEN [ company |-> drawnCompany,
              office |-> OfficesOf(drawnCompany)[d.office] ]
       ELSE LET c == FirstCompanyWithOffice(office[1])
            IN IF c # 0
               THEN [ company |-> COMPANY_OFFICES[c][1], office |-> office[1] ]
               ELSE [ company |-> drawnCompany,
                      office |-> OfficesOf(drawnCompany)[d.office] ]

\* Faulty variant: an office is looked up in the lists whenever the company is
\* not a known one, also when an unknown company was given.
SynthCompanyOffice_OfficeRescuesCompany(p, d) ==
    LET company == p.company
        office == p.claim_office
        drawnCompany == COMPANY_OFFICES[d.company][1]
    IN IF TruthyStr(company) /\ IsKnownCompany(company[1])
       THEN [ company |-> company[1],
              office |-> IF ~TruthyStr(office)
                            \/ ~InSeq(office[1], OfficesOf(company[1]))
                         THEN OfficesOf(company[1])[d.office]
                         ELSE office[1] ]
       ELSE IF ~TruthyStr(office)
       THEN [ company |-> drawnCompany,
              office |-> OfficesOf(drawnCompany)[d.office] ]
       ELSE LET c == FirstCompanyWithOffice(office[1])
            IN IF c # 0
               THEN [ company |-> COMPANY_OFFICES[c][1], office |-> office[1] ]
               ELSE [ company |-> drawnCompany,
                      office |-> OfficesOf(drawnCompany)[d.office] ]

\* company and office (synthesizer.py 130-152)
SynthCompanyOffice(p, d) ==
    LET company == p.company
        office == p.claim_office
        drawnCompany == COMPANY_OFFICES[d.company][1]
    IN IF TruthyStr(company) /\ IsKnownCompany(company[1])
       THEN [ company |-> company[1],
              office |-> IF ~TruthyStr(office)
                            \/ ~InSeq(office[1], OfficesOf(company[1]))
                         THEN OfficesOf(company[1])[d.office]
                         ELSE office[1] ]
       ELSE IF TruthyStr(company)
       THEN [ company |-> drawnCompany,
              office |-> OfficesOf(drawnCompany)[d.office] ]
       ELSE IF ~TruthyStr(office)
       THEN [ company |-> drawnCompany,
              office |-> OfficesOf(drawnCompany)[d.office] ]
       ELSE LET c == FirstCompanyWithOffice(office[1])
            IN IF c # 0
               THEN [ company |-> COMPANY_OFFICES[c][1], office |-> office[1] ]
               ELSE [ company |-> drawnCompany,
                      office |-> OfficesOf(drawnCompany)[d.office] ]

\* Faulty variant: the office is passed on only when one was extracted; the
\* record built otherwise has no claim_office.
synthesize_claim_OfficeOnlyIfExtracted(p, d) ==
    LET vehicle == DEFAULT_VEHICLES[d.vehicle]
        inc == SynthIncident(p, d)
        co == SynthCompanyOffice(p, d)
        given == [ policy_holder_name |-> OrStr(p.policy_holder_name, d.name),
                   policy_number |-> OrStr(p.policy_number, d.policy_num),
                   vehicle_make |-> OrStr(p.vehicle_make, vehicle[1]),
                   vehicle_model |-> OrStr(p.vehicle_model, vehicle[2]),
                   vehicle_year |-> IF p.vehicle_year # <<>> /\ p.vehicle_year[1] # 0
                                    THEN p.vehicle_year[1] ELSE vehicle[3],
                   incident_date |-> IF p.incident_date # <<>>
                                     THEN p.incident_date[1] ELSE d.inc_date,
                   incident_description |-> inc.inc_desc,
                   adjuster_name |-> OrStr(p.adjuster_name, ADJUSTER_NAMES[d.adjuster]),
                   status |-> OrStr(p.status, STATUSES[d.status]),
                   company |-> co.company,
                   point_of_impact |-> inc.impact ]
    IN IF TruthyStr(p.claim_office)
       THEN [ f \in DOMAIN given \cup { "claim_office" } |->
                  IF f = "claim_office" THEN co.office ELSE given[f] ]
       ELSE given

\* Faulty variant: make, model and year always come from the drawn vehicle.
synthesize_claim_VehicleDrawn(p, d) ==
    LET vehicle == DEFAULT_VEHICLES[d.vehicle]
        inc == SynthIncident(p, d)
        co == SynthCompanyOffice(p, d)
    IN [ policy_holder_name |-> OrStr(p.policy_holder_name, d.name),
         policy_number |-> OrStr(p.policy_number, d.policy_num),
         vehicle_make |-> vehicle[1],
         vehicle_model |-> vehicle[2],
         vehicle_year |-> vehicle[3],
         incident_date |-> IF p.incident_date # <<>>
                           THEN p.incident_date[1] ELSE d.inc_date,
         incident_description |-> inc.inc_desc,
         adjuster_name |-> OrStr(p.adjuster_name, ADJUSTER_NAMES[d.adjuster]),
         status |-> OrStr(p.status, STATUSES[d.status]),
         company |-> co.company,
         claim_office |-> co.office,
         point_of_impact |-> inc.impact ]

\* synthesize_claim(partial_claim) under the draws d; the result is the
\* ClaimCreate record.
synthesize_claim(p, d) ==
    LET vehicle == DEFAULT_VEHICLES[d.vehicle]
        inc == SynthIncident(p, d)
        co == SynthCompanyOffice(p, d)
    IN [ policy_holder_name |-> OrStr(p.policy_holder_name, d.name),
         policy_number |-> OrStr(p.policy_number, d.policy_num),
         vehicle_make |-> OrStr(p.vehicle_make, vehicle[1]),
         vehicle_model |-> OrStr(p.vehicle_model, vehicle[2]),
         vehicle_year |-> IF p.vehicle_year # <<>> /\ p.vehicle_year[1] # 0
                          THEN p.vehicle_year[1] ELSE vehicle[3],
         incident_date |-> IF p.incident_date # <<>>
                           THEN p.incident_date[1] ELSE d.inc_date,
         incident_description |-> inc.inc_desc,
         adjuster_name |-> OrStr(p.adjuster_name, ADJUSTER_NAMES[d.adjuster]),
         status |-> OrStr(p.status, STATUSES[d.status]),
         company |-> co.company,
         claim_office |-> co.office,
         point_of_impact |-> inc.impact ]

(* ------------------------------ db_utils.py --------------------------- *)

\* What the store does with a statement handed to cursor.execute:
\*   rows    |-> the rows fetched (a list of dicts)
\*   error   |-> "sqlite" (sqlite3.Error), "other" (any other exception), "none"
\*   exc     |-> str(e) of the exception
StoreOutcome(rows, error, exc) == [rows |-> rows, error |-> error, exc |-> exc]

\* Faulty variant of execute_sql: the guard looks for SELECT anywhere in the
\* statement instead of at its start.
execute_sql_SelectAnywhere(query, o) ==
    IF ~Contains(Upper(Strip(query)), KW_SELECT)
    THEN [ results |-> <<>>,
           error |-> Some(<<"Error: Only SELECT queries are allowed for retrieval.">>),
           store |-> FALSE, raises |-> FALSE, exc |-> <<>> ]
    ELSE IF o.error = "sqlite"
    THEN [ results |-> <<>>,
           error |-> Some(<<"Error executing SQL: ">> \o o.exc),
           store |-> TRUE, raises |-> FALSE, exc |-> <<>> ]
    ELSE IF o.error = "other"
    THEN [ results |-> <<>>, error |-> None,
           store |-> TRUE, raises |-> TRUE, exc |-> o.exc ]
    ELSE [ results |-> o.rows, error |-> None,
           store |-> TRUE, raises |-> FALSE, exc |-> <<>> ]

\* execute_sql(query) when the store answers o.  Result:
\*   results, error: the returned tuple (None is <<>>)
\*   store: TRUE when the statement reached cursor.execute
\*   raises, exc: an exception other than sqlite3.Error leaves the function
execute_sql(query, o) ==
    IF ~StartsWith(Upper(Strip(query)), KW_SELECT)
    THEN [ results |-> <<>>,
           error |-> Some(<<"Error: Only SELECT queries are allowed for retrieval.">>),
           store |-> FALSE, raises |-> FALSE, exc |-> <<>> ]
    ELSE IF o.error = "sqlite"
    THEN [ results |-> <<>>,
           error |-> Some(<<"Error executing SQL: ">> \o o.exc),
           store |-> TRUE, raises |-> FALSE, exc |-> <<>> ]
    ELSE IF o.error = "other"
    THEN [ results |-> <<>>, error |-> None,
           store |-> TRUE, raises |-> TRUE, exc |-> o.exc ]
    ELSE [ results |-> o.rows, error |-> None,
           store |-> TRUE, raises |-> FALSE, exc |-> <<>> ]

(* ------------------------------- agents.py ---------------------------- *)

\* An agent run: either it raises (exc is str(e)) or it returns output.
AgentResult(raises, output, exc) ==
    [raises |-> raises, output |-> output, exc |-> exc]

\* Faulty variant of sql_agent_run: the answer's query text becomes the
\* output without being validated (an output type of plain text).
sql_agent_run_Unvalidated(raw) ==
    IF raw.kind = "raise" THEN AgentResult(TRUE, None, raw.text)
    ELSE IF raw.kind = "invalid"
    THEN AgentResult(FALSE, Some(InvalidSQLRequest(raw.text)), <<>>)
    ELSE AgentResult(FALSE, Some(SQLQuery(raw.text)), <<>>)

\* What the language model answers to sql_agent: kind "sql" with the query
\* text, kind "invalid" with the rejection message, or kind "raise".
\* sql_agent.run validates the answer against SQLResponse: a query text that
\* SQLQuery rejects never becomes an output, the run ends in an exception.
sql_agent_run(raw) ==
    IF raw.kind = "raise" THEN AgentResult(TRUE, None, raw.text)
    ELSE IF raw.kind = "invalid"
    THEN AgentResult(FALSE, Some(InvalidSQLRequest(raw.text)), <<>>)
    ELSE IF ensure_select_statement(raw.text)
    THEN AgentResult(FALSE, Some(SQLQuery(raw.text)), <<>>)
    ELSE AgentResult(TRUE, None, <<"Exceeded maximum retries for result validation">>)

(* ------------------------------- nodes.py ----------------------------- *)

API_BASE_URL == "http://127.0.0.1:8000"

\* dict helpers: a dict is a sequence of <<key, value>> pairs
HasKey(d, k) == \E i \in 1..Len(d) : d[i][1] = k

Get(d, k, default) ==
    IF HasKey(d, k) THEN d[CHOOSE i \in 1..Len(d) : d[i][1] = k][2] ELSE default

RECURSIVE Concat(_)
\* "".join(parts)
Concat(parts) ==
    IF parts = <<>> THEN <<>> ELSE Head(parts) \o Concat(Tail(parts))

\* json.dumps of a str
JsonStr(v) == <<"\"">> \o F(v) \o <<"\"">>

\* json.dumps(d, indent=2, default=str) of a dict of strings
JsonDict(d) ==
    <<"{">>
    \o Concat([i \in 1..Len(d) |-> JsonStr(d[i][1]) \o <<": ">> \o JsonStr(d[i][2])])
    \o <<"}">>

\* json.dumps(claim.model_dump(exclude_none=True, mode='json'), indent=2)
JsonClaim(c) ==
    <<"{">>
    \o <<"policy_holder_name: ">> \o JsonStr(c.policy_holder_name)
    \o <<"policy_number: ">> \o JsonStr(c.policy_number)
    \o <<"vehicle_make: ">> \o JsonStr(c.vehicle_make)
    \o <<"vehicle_model: ">> \o JsonStr(c.vehicle_model)
    \o <<"vehicle_year: ", ToString(c.vehicle_year)>>
    \o <<"incident_date: ">> \o JsonStr(c.incident_date)
    \o <<"incident_description: ", "\"">> \o c.incident_description \o <<"\"">>
    \o <<"adjuster_name: ">> \o JsonStr(c.adjuster_name)
    \o <<"status: ">> \o JsonStr(c.status)
    \o <<"company: ">> \o JsonStr(c.company)
    \o <<"claim_office: ">> \o JsonStr(c.claim_office)
    \o <<"point_of_impact: ">> \o JsonStr(c.point_of_impact)
    \o <<"}">>

\* AgentState: every channel starts absent (state.get gives None).
AgentState ==
    [ messages |-> <<>>,
      intent_analysis |-> None,
      claim_extraction |-> None,
      sql_response |-> None,
      sql_results |-> None,
      sql_error |-> None,
      synthesized_claim |-> None,
      post_result |-> None,
      post_error |-> None,
      final_response |-> None ]

\* A node's result: the returned dict (update), the collaborators it called
\* in order (calls), those of them that failed (failed), and the statements
\* it handed to the store (store).
NodeResult(update, calls, failed, store) ==
    [update |-> update, calls |-> calls, failed |-> failed, store |-> store]

\* Faulty variant of analyze_message_node: a failed classification leaves
\* intent_analysis None instead of the "unknown" default.
analyze_message_node_NoFallback(state, io) ==
    LET last_message == state.messages[Len(state.messages)]
    IN IF last_message # "human"
       THEN NodeResult(
              [final_response |-> Some(<<"Internal error: Expected user message.">>)],
              <<>>, {}, {})
       ELSE LET intent_analysis ==
                    IF io.intent.raises THEN None ELSE io.intent.output
                extract == TruthyObj(intent_analysis)
                           /\ intent_analysis[1].action = "create"
                claim_extraction_result ==
                    IF extract /\ ~io.extraction.raises
                    THEN io.extraction.output ELSE None
            IN NodeResult(
                 [ intent_analysis |-> intent_analysis,
                   claim_extraction |-> claim_extraction_result ],
                 <<"intent_agent">>
                    \o (IF extract THEN <<"extraction_agent">> ELSE <<>>),
                 (IF io.intent.raises THEN {"intent_agent"} ELSE {})
                    \cup (IF extract /\ io.extraction.raises
                          THEN {"extraction_agent"} ELSE {}),
                 {})

\* Faulty variant of analyze_message_node: the extraction agent is called
\* whatever the intent is.
analyze_message_node_AlwaysExtract(state, io) ==
    LET last_message == state.messages[Len(state.messages)]
    IN IF last_message # "human"
       THEN NodeResult(
              [final_response |-> Some(<<"Internal error: Expected user message.">>)],
              <<>>, {}, {})
       ELSE LET intent_analysis ==
                    IF io.intent.raises THEN Some(Intent("unknown", None))
                    ELSE io.intent.output
                claim_extraction_result ==
                    IF ~io.extraction.raises THEN io.extraction.output ELSE None
            IN NodeResult(
                 [ intent_analysis |-> intent_analysis,
                   claim_extraction |-> claim_extraction_result ],
                 <<"intent_agent", "extraction_agent">>,
                 (IF io.intent.raises THEN {"intent_agent"} ELSE {})
                    \cup (IF io.extraction.raises
                          THEN {"extraction_agent"} ELSE {}),
                 {})

\* analyze_message_node(state); io.intent and io.extraction are what
\* intent_agent.run and extraction_agent.run do when called.
analyze_message_node(state, io) ==
    LET last_message == state.messages[Len(state.messages)]
    IN IF last_message # "human"
       THEN NodeResult(
              [final_response |-> Some(<<"Internal error: Expected user message.">>)],
              <<>>, {}, {})
       ELSE LET intent_analysis ==
                    IF io.intent.raises THEN Some(Intent("unknown", None))
                    ELSE io.intent.output
                extract == TruthyObj(intent_analysis)
                           /\ intent_analysis[1].action = "create"
                claim_extraction_result ==
                    IF extract /\ ~io.extraction.raises
                    THEN io.extraction.output ELSE None
            IN NodeResult(
                 [ intent_analysis |-> intent_analysis,
                   claim_extraction |-> claim_extraction_result ],
                 <<"intent_agent">>
                    \o (IF extract THEN <<"extraction_agent">> ELSE <<>>),
                 (IF io.intent.raises THEN {"intent_agent"} ELSE {})
                    \cup (IF extract /\ io.extraction.raises
                          THEN {"extraction_agent"} ELSE {}),
                 {})

NoDetailsMessage ==
    <<"Please provide more specific details for the claim you want to retrieve (e.g., claim ID, policy number, status).">>

\* Faulty variant of generate_sql_node: query_details is tested against None,
\* so an empty string reaches the query oracle.
generate_sql_node_DetailsNotNone(state, o) ==
    LET intent_analysis == state.intent_analysis
        retrieve == TruthyObj(intent_analysis)
                    /\ intent_analysis[1].action = "retrieve"
    IN IF retrieve /\ intent_analysis[1].query_details # None
       THEN NodeResult(
              [ sql_response |->
                  IF o.raises
                  THEN Some(InvalidSQLRequest(<<"Failed to generate SQL: ">> \o o.exc))
                  ELSE o.output ],
              <<"sql_agent">>,
              IF o.raises THEN {"sql_agent"} ELSE {}, {})
       ELSE IF retrieve
       THEN NodeResult([sql_response |-> Some(InvalidSQLRequest(NoDetailsMessage))],
                       <<>>, {}, {})
       ELSE NodeResult([sql_response |-> None], <<>>, {}, {})

\* generate_sql_node(state); o is what sql_agent.run does when called.
generate_sql_node(state, o) ==
    LET intent_analysis == state.intent_analysis
        retrieve == TruthyObj(intent_analysis)
                    /\ intent_analysis[1].action = "retrieve"
    IN IF retrieve /\ TruthyStr(intent_analysis[1].query_details)
       THEN NodeResult(
              [ sql_response |->
                  IF o.raises
                  THEN Some(InvalidSQLRequest(<<"Failed to generate SQL: ">> \o o.exc))
                  ELSE o.output ],
              <<"sql_agent">>,
              IF o.raises THEN {"sql_agent"} ELSE {}, {})
       ELSE IF retrieve
       THEN NodeResult([sql_response |-> Some(InvalidSQLRequest(NoDetailsMessage))],
                       <<>>, {}, {})
       ELSE NodeResult([sql_response |-> None], <<>>, {}, {})

\* execute_sql_node(state); o is what the store does when reached.
execute_sql_node(state, o) ==
    LET sql_response == state.sql_response
    IN IF IsSQLQuery(sql_response)
       THEN LET r == execute_sql(sql_response[1].sql, o)
            IN NodeResult(
                 IF r.raises
                 THEN [ sql_results |-> None,
                        sql_error |-> Some(<<"Unexpected error executing query: ">> \o r.exc) ]
                 ELSE [ sql_results |-> Some(r.results), sql_error |-> r.error ],
                 <<"execute_sql">>,
                 IF r.raises \/ r.error # None THEN {"execute_sql"} ELSE {},
                 IF r.store THEN {sql_response[1].sql} ELSE {})
       ELSE NodeResult([sql_results |-> None, sql_error |-> None], <<>>, {}, {})

\* synthesize_claim_node(state); o.raises when synthesize_claim raises,
\* o.draw are the random draws otherwise.
synthesize_claim_node(state, o) ==
    LET partial_claim == state.claim_extraction
    IN IF TruthyObj(partial_claim)
       THEN NodeResult(
              [ synthesized_claim |->
                  IF o.raises THEN None
                  ELSE Some(synthesize_claim(partial_claim[1], o.draw)) ],
              <<"synthesize_claim">>,
              IF o.raises THEN {"synthesize_claim"} ELSE {}, {})
       ELSE NodeResult([synthesized_claim |-> None], <<>>, {}, {})

\* What the claims API does with the POST:
\*   kind "ok": 2xx; `body` is what response.json() gives, <<dict>> for a
\*              JSON object and None for the JSON value null
\*   kind "RequestError": connection failure or timeout, str(e) is text
\*   kind "HTTPStatusError": status code `code`, response text is text
\*   kind "Exception": anything else (e.g. the body is not JSON)
PostOutcome(kind, body, code, text) ==
    [kind |-> kind, body |-> body, code |-> code, text |-> text]

\* Faulty variant of post_claim_node: the POST is sent whether or not a
\* record was synthesized.
post_claim_node_PostsWithoutRecord(state, o) ==
    NodeResult(
      IF o.kind = "ok"
      THEN [ post_result |-> o.body, post_error |-> None ]
      ELSE IF o.kind = "RequestError"
      THEN [ post_result |-> None,
             post_error |-> Some(<<"API Request Error: Could not connect to ",
                                   API_BASE_URL, "/claims/", " - ">> \o o.text) ]
      ELSE IF o.kind = "HTTPStatusError"
      THEN [ post_result |-> None,
             post_error |-> Some(<<"API Error: Status ", o.code, " for ",
                                   API_BASE_URL, "/claims/", ". Response: ">> \o o.text) ]
      ELSE [ post_result |-> None,
             post_error |-> Some(<<"Unexpected error posting claim: ">> \o o.text) ],
      <<"post">>,
      IF o.kind = "ok" THEN {} ELSE {"post"}, {})

\* Faulty variant of post_claim_node: a failed POST is sent a second time
\* before the failure is reported.
post_claim_node_RetryOnFailure(state, o) ==
    LET synthesized_claim == state.synthesized_claim
    IN IF TruthyObj(synthesized_claim)
       THEN NodeResult(
              IF o.kind = "ok"
              THEN [ post_result |-> o.body, post_error |-> None ]
              ELSE [ post_result |-> None,
                     post_error |-> Some(<<"Unexpected error posting claim: ">> \o o.text) ],
              IF o.kind = "ok" THEN <<"post">> ELSE <<"post", "post">>,
              IF o.kind = "ok" THEN {} ELSE {"post"}, {})
       ELSE NodeResult(
              [ post_result |-> None,
                post_error |-> Some(<<"No synthesized claim data to post.">>) ],
              <<>>, {}, {})

\* Faulty variant of post_claim_node: an error status of the API (such as
\* 409 for an existing policy number) is not recorded.
post_claim_node_StatusIgnored(state, o) ==
    LET synthesized_claim == state.synthesized_claim
    IN IF TruthyObj(synthesized_claim)
       THEN NodeResult(
              IF o.kind = "ok"
              THEN [ post_result |-> o.body, post_error |-> None ]
              ELSE IF o.kind = "RequestError"
              THEN [ post_result |-> None,
                     post_error |-> Some(<<"API Request Error: Could not connect to ",
                                           API_BASE_URL, "/claims/", " - ">> \o o.text) ]
              ELSE IF o.kind = "HTTPStatusError"
              THEN [ post_result |-> None, post_error |-> None ]
              ELSE [ post_result |-> None,
                     post_error |-> Some(<<"Unexpected error posting claim: ">> \o o.text) ],
              <<"post">>,
              IF o.kind = "ok" THEN {} ELSE {"post"}, {})
       ELSE NodeResult(
              [ post_result |-> None,
                post_error |-> Some(<<"No synthesized claim data to post.">>) ],
              <<>>, {}, {})

\* post_claim_node(state); o is what the claims API does when called.
post_claim_node(state, o) ==
    LET synthesized_claim == state.synthesized_claim
    IN IF TruthyObj(synthesized_claim)
       THEN NodeResult(
              IF o.kind = "ok"
              THEN [ post_result |-> o.body, post_error |-> None ]
              ELSE IF o.kind = "RequestError"
              THEN [ post_result |-> None,
                     post_error |-> Some(<<"API Request Error: Could not connect to ",
                                           API_BASE_URL, "/claims/", " - ">> \o o.text) ]
              ELSE IF o.kind = "HTTPStatusError"
              THEN [ post_result |-> None,
                     post_error |-> Some(<<"API Error: Status ", o.code, " for ",
                                           API_BASE_URL, "/claims/", ". Response: ">> \o o.text) ]
              ELSE [ post_result |-> None,
                     post_error |-> Some(<<"Unexpected error posting claim: ">> \o o.text) ],
              <<"post">>,
              IF o.kind = "ok" THEN {} ELSE {"post"}, {})
       ELSE NodeResult(
              [ post_result |-> None,
                post_error |-> Some(<<"No synthesized claim data to post.">>) ],
              <<>>, {}, {})

ClarifyingPrompt ==
    <<"Okay, how can I help you specifically with creating or retrieving an auto insurance claim?">>

DefaultErrorResponse ==
    <<"Sorry, I couldn't process your request completely. How else can I help?">>

NoIntentResponse ==
    <<"Sorry, I had trouble understanding your initial request.">>

NoClaimsFoundResponse ==
    <<"I couldn't find any claims matching your criteria.">>

QueryNotRunResponse ==
    <<"I generated a query for your request, but couldn't retrieve the results.">>

CreateFailedResponse ==
    <<"I understood you want to create a claim, but couldn't finalize the details or submit it.">>

\* one line of formatted_results (the backquotes of the source text are
\* written ' and its code fences ~~~)
FormatRow(res) ==
    <<"- Claim ID: '", Get(res, "id", "N/A"), "', Status: '",
      Get(res, "status", "N/A"), "', Holder: '",
      Get(res, "policy_holder_name", "N/A"), "'">>

\* "\n".join(lines)
JoinLines(lines) ==
    Concat([i \in 1..Len(lines) |->
              IF i = 1 THEN lines[i] ELSE <<"\n">> \o lines[i]])

\* Faulty variant of CreateResponse: the synthesized record is looked at
\* before the outcome of the submission.
CreateResponse_SynthesizedFirst(state) ==
    LET post_result == state.post_result
        post_error == state.post_error
        synthesized == state.synthesized_claim
    IN IF TruthyObj(synthesized)
       THEN <<"Claim was synthesized, but confirmation from the API was unclear. Details:\n~~~json\n">>
            \o JsonClaim(synthesized[1])
            \o <<"\n~~~">>
       ELSE IF TruthyText(post_error)
       THEN <<"I tried to create the claim, but encountered an error: ">>
            \o post_error[1]
            \o <<". The synthesized details were:\n~~~json\n">>
            \o <<"{}">>
            \o <<"\n~~~">>
       ELSE IF TruthySeq(post_result) /\ HasKey(post_result[1], "id")
       THEN <<"Successfully created claim with ID: '">>
            \o F(Get(post_result[1], "id", ""))
            \o <<"'. Here are the full details:\n~~~json\n">>
            \o JsonDict(post_result[1])
            \o <<"\n~~~">>
       ELSE CreateFailedResponse

\* the create branch of generate_response_node (nodes.py 198-210)
CreateResponse(state) ==
    LET post_result == state.post_result
        post_error == state.post_error
        synthesized == state.synthesized_claim
    IN IF TruthyText(post_error)
       THEN <<"I tried to create the claim, but encountered an error: ">>
            \o post_error[1]
            \o <<". The synthesized details were:\n~~~json\n">>
            \o (IF TruthyObj(synthesized) THEN JsonClaim(synthesized[1])
                ELSE <<"{}">>)
            \o <<"\n~~~">>
       ELSE IF TruthySeq(post_result) /\ HasKey(post_result[1], "id")
       THEN <<"Successfully created claim with ID: '">>
            \o F(Get(post_result[1], "id", ""))
            \o <<"'. Here are the full details:\n~~~json\n">>
            \o JsonDict(post_result[1])
            \o <<"\n~~~">>
       ELSE IF TruthyObj(synthesized)
       THEN <<"Claim was synthesized, but confirmation from the API was unclear. Details:\n~~~json\n">>
            \o JsonClaim(synthesized[1])
            \o <<"\n~~~">>
       ELSE CreateFailedResponse

\* Faulty variant of RetrieveResponse: sql_results is tested for truth, so
\* an empty result list is answered like a query that was not run.
RetrieveResponse_EmptyIsNotRun(state) ==
    LET sql_response == state.sql_response
        sql_results == state.sql_results
        sql_error == state.sql_error
    IN IF IsInvalidSQLRequest(sql_response)
       THEN sql_response[1].error_message
       ELSE IF TruthyText(sql_error)
       THEN <<"I tried to retrieve the claims, but encountered a database error: ">>
            \o sql_error[1]
       ELSE IF TruthySeq(sql_results)
       THEN <<"Found the following claim(s):\n">>
            \o JoinLines([i \in 1..Len(sql_results[1]) |->
                            FormatRow(sql_results[1][i])])
       ELSE QueryNotRunResponse

\* the retrieve branch of generate_response_node (nodes.py 212-231)
RetrieveResponse(state) ==
    LET sql_response == state.sql_response
        sql_results == state.sql_results
        sql_error == state.sql_error
    IN IF IsInvalidSQLRequest(sql_response)
       THEN sql_response[1].error_message
       ELSE IF TruthyText(sql_error)
       THEN <<"I tried to retrieve the claims, but encountered a database error: ">>
            \o sql_error[1]
       ELSE IF sql_results # None
       THEN IF sql_results[1] # <<>>
            THEN <<"Found the following claim(s):\n">>
                 \o JoinLines([i \in 1..Len(sql_results[1]) |->
                                 FormatRow(sql_results[1][i])])
            ELSE NoClaimsFoundResponse
       ELSE QueryNotRunResponse

\* generate_response_node(state): the text of final_response
ResponseText(state) ==
    LET intent_analysis == state.intent_analysis
    IN IF TruthyObj(intent_analysis)
       THEN IF intent_analysis[1].action = "create" THEN CreateResponse(state)
            ELSE IF intent_analysis[1].action = "retrieve"
            THEN RetrieveResponse(state)
            ELSE IF intent_analysis[1].action = "unknown" THEN ClarifyingPrompt
            ELSE DefaultErrorResponse
       ELSE NoIntentResponse

generate_response_node(state) ==
    NodeResult([final_response |-> Some(ResponseText(state))], <<>>, {}, {})

(* -------------------------- langgraph_workflow.py --------------------- *)

END == "__end__"

\* Faulty variant of route_after_analysis: "unknown" ends the turn like a
\* missing intent.
route_after_analysis_UnknownEnds(state) ==
    LET intent_analysis == state.intent_analysis
    IN IF TruthyObj(intent_analysis)
       THEN IF intent_analysis[1].action = "create" THEN "synthesize_claim"
            ELSE IF intent_analysis[1].action = "retrieve" THEN "generate_sql"
            ELSE END
       ELSE END

\* Faulty variant of route_after_analysis: the two branches lead to each
\* other's path.
route_after_analysis_PathsSwapped(state) ==
    LET intent_analysis == state.intent_analysis
    IN IF TruthyObj(intent_analysis)
       THEN IF intent_analysis[1].action = "create" THEN "generate_sql"
            ELSE IF intent_analysis[1].action = "retrieve" THEN "synthesize_claim"
            ELSE "generate_response"
       ELSE END

route_after_analysis(state) ==
    LET intent_analysis == state.intent_analysis
    IN IF TruthyObj(intent_analysis)
       THEN IF intent_analysis[1].action = "create" THEN "synthesize_claim"
            ELSE IF intent_analysis[1].action = "retrieve" THEN "generate_sql"
            ELSE "generate_response"
       ELSE END

\* Faulty variant of route_after_sql_generation: any response object, a
\* rejection included, is routed to execution.
route_after_sql_generation_AnyResponse(state) ==
    IF state.sql_response # None THEN "execute_sql"
    ELSE "generate_response"

route_after_sql_generation(state) ==
    IF IsSQLQuery(state.sql_response) THEN "execute_sql"
    ELSE "generate_response"

\* The edges of build_graph: the node that runs after 'node' has returned and
\* its update has been merged into 'state'.
\* Faulty variant of the edges: after a failed execution the query is
\* generated again.
NextNode_RetryQuery(node, state) ==
    CASE node = "analyze_message"   -> route_after_analysis(state)
      [] node = "generate_sql"      -> route_after_sql_generation(state)
      [] node = "execute_sql"       -> IF state.sql_error # None
                                       THEN "generate_sql"
                                       ELSE "generate_response"
      [] node = "synthesize_claim"  -> "post_claim"
      [] node = "post_claim"        -> "generate_response"
      [] node = "generate_response" -> END

NextNode(node, state) ==
    CASE node = "analyze_message"   -> route_after_analysis(state)
      [] node = "generate_sql"      -> route_after_sql_generation(state)
      [] node = "execute_sql"       -> "generate_response"
      [] node = "synthesize_claim"  -> "post_claim"
      [] node = "post_claim"        -> "generate_response"
      [] node = "generate_response" -> END

\* Merge of a node's returned dict into the state: each returned key
\* overwrites its channel, every other channel keeps its value.
ApplyUpdate(state, update) ==
    [k \in DOMAIN state |-> IF k \in DOMAIN update THEN update[k] ELSE state[k]]

\* Faulty variant of Checkpoint: the thread_id of the config is ignored, every
\* session loads the same thread's checkpoint.
Checkpoint_OneThread(saved, thread_id) == saved["t1"]

\* MemorySaver: the checkpoint graph.astream loads for
\* config["configurable"]["thread_id"].
Checkpoint(saved, thread_id) == saved[thread_id]

\* The graph input {"messages": [message]} applied to the thread's
\* checkpoint: add_messages appends, no other channel is written.
ApplyInput(checkpoint, message) ==
    [checkpoint EXCEPT !.messages = Append(@, message)]

(* ------------------- collaborators: what they may answer -------------- *)

\* Types of the message a turn appends (HumanMessage or any other).
MessageKinds == { "human", "ai" }

\* str(e) of an exception a collaborator raises.
Excs == { <<>>, <<"timed out">> }

Intents ==
    { Intent(a, q) : a \in { "create", "retrieve", "unknown" },
                     q \in { None, Some(""), Some("claim ID CLM-1") } }

IntentResults ==
    { AgentResult(FALSE, Some(i), <<>>) : i \in Intents }
    \cup { AgentResult(TRUE, None, e) : e \in Excs }

\* PartialClaim(): every field None
EmptyPartial ==
    [ policy_holder_name |-> None, policy_number |-> None,
      vehicle_make |-> None, vehicle_model |-> None, vehicle_year |-> None,
      incident_date |-> None, incident_description |-> None,
      adjuster_name |-> None, status |-> None, company |-> None,
      claim_office |-> None, point_of_impact |-> None ]

\* "I hit a deer": description without impact, a company with a wrong office
DeerPartial ==
    [ EmptyPartial EXCEPT
        !.policy_holder_name = Some("John Carter"),
        !.incident_description = Some(<<"h","i","t"," ","a"," ","d","e","e","r">>),
        !.company = Some("Beta Insurance"),
        !.claim_office = Some("Chicago Office") ]

ExtractedClaims == { EmptyPartial, DeerPartial }

ExtractionResults ==
    { AgentResult(FALSE, Some(p), <<>>) : p \in ExtractedClaims }
    \cup { AgentResult(TRUE, None, e) : e \in Excs }

\* "SELECT *"
SqlSelect == <<"S","E","L","E","C","T"," ","*">>

\* " select id": lower case, leading blank
SqlLowerSelect == <<" ","s","e","l","e","c","t"," ","i","d">>

\* "DELETE *"
SqlDelete == <<"D","E","L","E","T","E"," ","*">>

\* "SELECT 1;drop t": a SELECT followed by a mutating statement
SqlSelectThenDrop ==
    <<"S","E","L","E","C","T"," ","1",";","d","r","o","p"," ","t">>

SqlTexts == { SqlSelect, SqlLowerSelect, SqlDelete, SqlSelectThenDrop, <<>> }

RejectionTexts ==
    { <<>>,
      <<"Sorry, I can only retrieve claim information. I cannot perform delete operations.">> }

RawSqlAnswers ==
    { [kind |-> "sql", text |-> q] : q \in SqlTexts }
    \cup { [kind |-> "invalid", text |-> m] : m \in RejectionTexts }
    \cup { [kind |-> "raise", text |-> e] : e \in Excs }

RowFull ==
    << <<"id", "CLM-1">>, <<"status", "Approved">>,
       <<"policy_holder_name", "John Doe">> >>

\* a row of a query that selects the id column only
RowIdOnly == << <<"id", "CLM-2">> >>

StoreOutcomes ==
    { StoreOutcome(rows, "none", <<>>) :
          rows \in { <<>>, <<RowFull>>, <<RowFull, RowIdOnly>> } }
    \cup { StoreOutcome(<<>>, err, e) : err \in { "sqlite", "other" }, e \in Excs }

DrawFirst ==
    [ name |-> "Jane Roe", policy_num |-> "POL-100000", vehicle |-> 1,
      inc_date |-> "2025-01-01T00:00:00", incident |-> 1,
      impact |-> "Rear bumper", adjuster |-> 1, status |-> 1,
      company |-> 1, office |-> 1 ]

DrawLast ==
    [ name |-> "Max Mustermann", policy_num |-> "POL-999999", vehicle |-> 9,
      inc_date |-> "2025-03-31T23:59:59", incident |-> 20,
      impact |-> "Windshield", adjuster |-> 10, status |-> 4,
      company |-> 4, office |-> 3 ]

\* the draws the workflow specifications explore
WorkflowDraws == { DrawFirst, DrawLast }

SynthOutcomes ==
    { [raises |-> FALSE, draw |-> d] : d \in WorkflowDraws }
    \cup { [raises |-> TRUE, draw |-> DrawFirst] }

StoredClaim == << <<"id", "CLM-TEST1">>, <<"status", "Submitted">> >>

PostOutcomes ==
    { PostOutcome("ok", body, "200", <<>>) :
          body \in { Some(StoredClaim), Some(<< <<"detail", "accepted">> >>),
                     Some(<<>>), None } }
    \cup { PostOutcome("RequestError", None, "", e) : e \in Excs }
    \cup { PostOutcome("HTTPStatusError", None, "409", <<"policy number exists">>) }
    \cup { PostOutcome("Exception", None, "", e) : e \in Excs }

(* ------------------------------ the system ---------------------------- *)

\* thread_id values of the sessions
Threads == { "t1", "t2" }

\* the session the single-session specification runs
MainThreads == { "t1" }

VARIABLES
    state,      \* thread -> the thread's checkpointed AgentState
    pc,         \* thread -> "idle", the node about to run, or END
    turn,       \* thread -> number of turns started
    stages,     \* thread -> nodes run so far in the current turn
    calls,      \* thread -> collaborators called so far in the current turn
    failed,     \* thread -> collaborators that failed in the current turn
    storeLog,   \* statements handed to the store's cursor.execute so far
    trace,      \* thread -> per node run in the current turn: the node, the
                \*   keys of the dict it returned, the collaborators it called
    answered,   \* thread -> what the language model answered to sql_agent in
                \*   the current turn (None when sql_agent was not called)
    returned,   \* the last direct call of a function of the repository
                \*   (execute_sql, synthesize_claim) and what it returned
    transcript  \* thread -> st.session_state.messages of the session

vars == <<state, pc, turn, stages, calls, failed, storeLog, trace, answered,
          returned, transcript>>

\* a transcript entry; content is a str (text) or a pandas DataFrame (rows)
Message(role, content) == [role |-> role, content |-> content]

StrContent(text) == [type |-> "str", text |-> text]

\* pd.DataFrame(rows) of a list of dicts
DataFrame(rows) == [type |-> "DataFrame", rows |-> rows]

\* the greeting every session's transcript starts with (chatbot.py 27-30)
Greeting ==
    Message("assistant",
            StrContent(<<"Hi! How can I help you with your auto insurance claim today?">>))

Init ==
    /\ state = [t \in Threads |-> AgentState]
    /\ pc = [t \in Threads |-> "idle"]
    /\ turn = [t \in Threads |-> 0]
    /\ stages = [t \in Threads |-> <<>>]
    /\ calls = [t \in Threads |-> <<>>]
    /\ failed = [t \in Threads |-> {}]
    /\ storeLog = {}
    /\ trace = [t \in Threads |-> <<>>]
    /\ answered = [t \in Threads |-> None]
    /\ returned = None
    /\ transcript = [t \in Threads |-> <<Greeting>>]

\* graph.astream(graph_input, config): a turn of thread t starts from the
\* thread's checkpoint with the new message (of a type in `kinds`) appended;
\* START leads to analyze_message.
astream(t, limit, kinds) ==
    /\ pc[t] \in { "idle", END }
    /\ turn[t] < limit
    /\ \E m \in kinds :
           state' = [state EXCEPT ![t] = ApplyInput(Checkpoint(state, t), m)]
    /\ pc' = [pc EXCEPT ![t] = "analyze_message"]
    /\ turn' = [turn EXCEPT ![t] = @ + 1]
    /\ stages' = [stages EXCEPT ![t] = <<>>]
    /\ calls' = [calls EXCEPT ![t] = <<>>]
    /\ failed' = [failed EXCEPT ![t] = {}]
    /\ trace' = [trace EXCEPT ![t] = <<>>]
    /\ answered' = [answered EXCEPT ![t] = None]
    /\ UNCHANGED <<storeLog, returned>>

\* The graph invoked by a caller that keeps no transcript.
StartTurn(t, limit, kinds) ==
    /\ astream(t, limit, kinds)
    /\ UNCHANGED transcript

\* One superstep: node `node` of thread t has returned r; its update is merged
\* and the outgoing edge is taken.
RunNode(t, node, r) ==
    /\ pc[t] = node
    /\ LET merged == ApplyUpdate(state[t], r.update)
       IN /\ state' = [state EXCEPT ![t] = merged]
          /\ pc' = [pc EXCEPT ![t] = NextNode(node, merged)]
    /\ stages' = [stages EXCEPT ![t] = Append(@, node)]
    /\ calls' = [calls EXCEPT ![t] = @ \o r.calls]
    /\ failed' = [failed EXCEPT ![t] = @ \cup r.failed]
    /\ storeLog' = storeLog \cup r.store
    /\ trace' = [trace EXCEPT ![t] =
                    Append(@, [ node |-> node, keys |-> DOMAIN r.update,
                                calls |-> r.calls ])]
    /\ UNCHANGED <<turn, returned, transcript>>

AnalyzeMessage(t) ==
    /\ \E i \in IntentResults, x \in ExtractionResults :
           RunNode(t, "analyze_message",
                   analyze_message_node(state[t], [intent |-> i, extraction |-> x]))
    /\ UNCHANGED answered

GenerateSql(t) ==
    \E raw \in RawSqlAnswers :
        LET r == generate_sql_node(state[t], sql_agent_run(raw))
        IN /\ RunNode(t, "generate_sql", r)
           /\ answered' = [answered EXCEPT ![t] =
                             IF InSeq("sql_agent", r.calls) THEN Some(raw) ELSE @]

ExecuteSql(t) ==
    /\ \E o \in StoreOutcomes :
           RunNode(t, "execute_sql", execute_sql_node(state[t], o))
    /\ UNCHANGED answered

SynthesizeClaim(t) ==
    /\ \E o \in SynthOutcomes :
           RunNode(t, "synthesize_claim", synthesize_claim_node(state[t], o))
    /\ UNCHANGED answered

PostClaim(t) ==
    /\ \E o \in PostOutcomes :
           RunNode(t, "post_claim", post_claim_node(state[t], o))
    /\ UNCHANGED answered

GenerateResponse(t) ==
    /\ RunNode(t, "generate_response", generate_response_node(state[t]))
    /\ UNCHANGED answered

Next ==
    \E t \in MainThreads :
        \/ StartTurn(t, MaxTurns, MessageKinds)
        \/ AnalyzeMessage(t)
        \/ GenerateSql(t)
        \/ ExecuteSql(t)
        \/ SynthesizeClaim(t)
        \/ PostClaim(t)
        \/ GenerateResponse(t)

\* The workflow graph of one session, invoked with a message of any type.
Spec == Init /\ [][Next]_vars

\* The session as chatbot.py drives it: every turn's input is a HumanMessage.
NextChat ==
    \E t \in MainThreads :
        \/ StartTurn(t, MaxTurns, { "human" })
        \/ AnalyzeMessage(t)
        \/ GenerateSql(t)
        \/ ExecuteSql(t)
        \/ SynthesizeClaim(t)
        \/ PostClaim(t)
        \/ GenerateResponse(t)

SpecChat == Init /\ [][NextChat]_vars

(* ------------------------- several sessions -------------------------- *)

RECURSIVE TurnsOf(_)
\* number of turns the sessions in S have started
TurnsOf(S) ==
    IF S = {} THEN 0
    ELSE LET t == CHOOSE t \in S : TRUE
         IN turn[t] + TurnsOf(S \ {t})

\* Browser sessions with their own thread_id, each driven by chatbot.py,
\* share the cached graph; their turns interleave node by node (every await
\* in a node is a point where another session's turn may proceed).  MaxTurns
\* bounds the turns of all sessions together.
NextSessions ==
    \E t \in Threads :
        \/ StartTurn(t, MaxTurns - TurnsOf(Threads \ {t}), { "human" })
        \/ AnalyzeMessage(t)
        \/ GenerateSql(t)
        \/ ExecuteSql(t)
        \/ SynthesizeClaim(t)
        \/ PostClaim(t)
        \/ GenerateResponse(t)

SpecSessions == Init /\ [][NextSessions]_vars

(* ----------------- the same turn after two histories ----------------- *)

\* Two sessions of the graph, to compare a turn after different histories:
\* session "t2" has its turns first, then session "t1", whose checkpoint is
\* empty, has one turn.  The sessions share nothing (their thread_id
\* differs), so running one after the other loses no behaviour of either.
\* session t may take a step
InTurnOrder(t) ==
    IF t = "t2" THEN turn["t1"] = 0
    ELSE pc["t2"] = END /\ turn["t2"] = MaxTurns

NextHistories ==
    \E t \in Threads :
        \/ InTurnOrder(t)
             /\ StartTurn(t, IF t = "t2" THEN MaxTurns ELSE 1, MessageKinds)
        \/ InTurnOrder(t) /\ AnalyzeMessage(t)
        \/ InTurnOrder(t) /\ GenerateSql(t)
        \/ InTurnOrder(t) /\ ExecuteSql(t)
        \/ InTurnOrder(t) /\ SynthesizeClaim(t)
        \/ InTurnOrder(t) /\ PostClaim(t)
        \/ InTurnOrder(t) /\ GenerateResponse(t)

SpecHistories == Init /\ [][NextHistories]_vars

(* --------------------- the session layer: chatbot.py ----------------- *)

\* chatbot.py 100-130: the prompt is appended to the transcript as the user's
\* message and the graph is started with it.  st.chat_input gives a non-empty
\* text.  A prompt is taken when the handling of the previous one is over.
Prompt(t) ==
    /\ pc[t] = "idle"
    /\ astream(t, MaxTurns, { "human" })
    /\ transcript' = [transcript EXCEPT ![t] =
                         Append(@, Message("user", StrContent(<<"prompt">>)))]

\* An exception leaves graph.astream while a node is running: one that the
\* node does not catch (the TypeError of `'id' in post_result` at nodes.py 204
\* when the API's JSON body is a number, a failure of the checkpointer).
\* The checkpoint stays as the last completed node left it.
GraphRaises(t) ==
    /\ pc[t] \in { "analyze_message", "generate_sql", "execute_sql",
                   "synthesize_claim", "post_claim", "generate_response" }
    /\ pc' = [pc EXCEPT ![t] = "raised"]
    /\ UNCHANGED <<state, turn, stages, calls, failed, storeLog, trace,
                   answered, returned, transcript>>

\* What the assistant's transcript entry holds (chatbot.py 226-272).
\* stream_and_capture takes final_response from the generate_response chunk
\* and sql_results from the execute_sql chunk when that chunk has no error;
\* with sql_results captured, the stored content is the DataFrame of the rows
\* (pd.DataFrame of a list of dicts does not raise, and the texts assigned at
\* 256 and 258 are not stored).
assistant_content(raised, s, ran) ==
    LET final_response ==
            IF InSeq("generate_response", ran) THEN s.final_response ELSE None
        sql_results ==
            IF InSeq("execute_sql", ran) /\ ~TruthyText(s.sql_error)
            THEN s.sql_results ELSE None
        assistant_response_content ==
            IF raised THEN <<"I encountered an error. Please try again.">>
            ELSE IF TruthyText(final_response) THEN final_response[1]
            ELSE <<"Sorry, I couldn't generate a final response.">>
        final_sql_results_list == IF raised THEN None ELSE sql_results
    IN IF final_sql_results_list # None
       THEN DataFrame(final_sql_results_list[1])
       ELSE StrContent(assistant_response_content)

\* chatbot.py 226-272: asyncio.run has returned or raised; the assistant's
\* message is stored and the handling of the prompt is over.
StoreResponse(t) ==
    /\ pc[t] \in { END, "raised" }
    /\ transcript' = [transcript EXCEPT ![t] =
          Append(@, Message("assistant",
                            assistant_content(pc[t] = "raised", state[t], stages[t])))]
    /\ pc' = [pc EXCEPT ![t] = "idle"]
    /\ UNCHANGED <<state, turn, stages, calls, failed, storeLog, trace,
                   answered, returned>>

NextTranscript ==
    \E t \in MainThreads :
        \/ Prompt(t)
        \/ AnalyzeMessage(t)
        \/ GenerateSql(t)
        \/ ExecuteSql(t)
        \/ SynthesizeClaim(t)
        \/ PostClaim(t)
        \/ GenerateResponse(t)
        \/ GraphRaises(t)
        \/ StoreResponse(t)

\* One session with its transcript.
SpecTranscript == Init /\ [][NextTranscript]_vars

(* ------------------ collaborators that never answer ------------------ *)

\* The node thread t is about to run awaits a collaborator without a time
\* limit: intent_agent.run and extraction_agent.run (nodes.py 52, 64),
\* sql_agent.run (nodes.py 88) and execute_sql's cursor.execute (db_utils.py
\* 60) are called with no timeout and are not wrapped in one.  The POST of
\* post_claim_node has timeout=10.0: an API that never answers is its
\* RequestError outcome.
AwaitsWithoutLimit(t) ==
    \/ /\ pc[t] = "analyze_message"
       /\ state[t].messages[Len(state[t].messages)] = "human"
    \/ /\ pc[t] = "generate_sql"
       /\ generate_sql_node(state[t], AgentResult(TRUE, None, <<>>)).calls # <<>>
    \/ pc[t] = "execute_sql" /\ IsSQLQuery(state[t].sql_response)

\* The collaborator never answers: the node stays suspended in its await.
\* No step of the turn is possible from "waiting": nothing ends the await.
NeverAnswers(t) ==
    /\ AwaitsWithoutLimit(t)
    /\ pc' = [pc EXCEPT ![t] = "waiting"]
    /\ UNCHANGED <<state, turn, stages, calls, failed, storeLog, trace,
                   answered, returned, transcript>>

NextWait ==
    \E t \in MainThreads :
        \/ StartTurn(t, MaxTurns, { "human" })
        \/ AnalyzeMessage(t)
        \/ GenerateSql(t)
        \/ ExecuteSql(t)
        \/ SynthesizeClaim(t)
        \/ PostClaim(t)
        \/ GenerateResponse(t)
        \/ NeverAnswers(t)

\* The session with collaborators that may never answer.
SpecWait == Init /\ [][NextWait]_vars

(* ----------------------- execute_sql called directly ------------------ *)

\* "DROP t;SELECT 1": a mutating statement followed by a SELECT
SqlDropThenSelect ==
    <<"D","R","O","P"," ","t",";","S","E","L","E","C","T"," ","1">>

\* "\tUPDATE t"
SqlUpdate == <<"\t","U","P","D","A","T","E"," ","t">>

\* the statements a caller of db_utils.execute_sql passes: the function takes
\* any str, validated or not
DirectQueries == SqlTexts \cup { SqlDropThenSelect, SqlUpdate }

\* execute_sql(query) called on its own; `returned` keeps the call and its
\* result (raises when an exception other than sqlite3.Error leaves it).
ExecuteSqlDirect ==
    /\ \E query \in DirectQueries, o \in StoreOutcomes :
           LET r == execute_sql(query, o)
           IN /\ returned' = Some([ query |-> query, results |-> r.results,
                                    error |-> r.error, raises |-> r.raises,
                                    exc |-> r.exc ])
              /\ storeLog' = storeLog \cup (IF r.store THEN {query} ELSE {})
    /\ UNCHANGED <<state, pc, turn, stages, calls, failed, trace, answered,
                   transcript>>

NextExecuteSql == ExecuteSqlDirect

\* db_utils.execute_sql as a function of its argument and the store.
SpecExecuteSql == Init /\ [][NextExecuteSql]_vars

(* -------------------- synthesize_claim called directly ---------------- *)

\* The partial records passed to synthesize_claim.  Description, impact,
\* company and office vary independently, each over None, "" and values
\* that take every branch of the two couplings; the other eight fields are
\* all None, all falsy ("" and the year 0), all given, or given in part.
PartialClaims ==
    LET given ==
            [ EmptyPartial EXCEPT
                !.policy_holder_name = Some("John Carter"),
                !.policy_number = Some("POL-123456"),
                !.vehicle_make = Some("Jeep"),
                !.vehicle_model = Some("Wrangler"),
                !.vehicle_year = Some(2015),
                !.incident_date = Some("2025-02-14T09:30:00"),
                !.adjuster_name = Some("Sam Field"),
                !.status = Some("Pending") ]
        falsy ==
            [ EmptyPartial EXCEPT
                !.policy_holder_name = Some(""),
                !.policy_number = Some(""),
                !.vehicle_make = Some(""),
                !.vehicle_model = Some(""),
                !.vehicle_year = Some(0),
                !.adjuster_name = Some(""),
                !.status = Some("") ]
        partA ==
            [ EmptyPartial EXCEPT
                !.policy_holder_name = Some("John Carter"),
                !.vehicle_make = Some("Jeep"),
                !.vehicle_year = Some(2015),
                !.adjuster_name = Some("Sam Field") ]
        partB ==
            [ falsy EXCEPT
                !.policy_number = Some("POL-123456"),
                !.vehicle_model = Some("Wrangler"),
                !.vehicle_year = None,
                !.incident_date = Some("2025-02-14T09:30:00"),
                !.status = Some("Pending") ]
        descriptions ==
            { None, Some(<<>>),
              \* "hit a deer": inside the phrase of row 5
              Some(<<"h","i","t"," ","a"," ","d","e","e","r">>),
              \* "SIDE": inside the phrases of rows 7 to 11 and 18
              Some(<<"S","I","D","E">>),
              \* "Bad hail damage": contains the phrase of row 13
              Some(<<"B","a","d"," ","h","a","i","l"," ","d","a","m","a","g","e">>),
              \* "Flood": no row
              Some(<<"F","l","o","o","d">>) }
        impacts == { None, Some(""), Some("Hood") }
        companies ==
            { None, Some(""), Some("Beta Insurance"), Some("Acme Insurance") }
        offices ==
            { None, Some(""), Some("Miami Office"), Some("Chicago Office"),
              Some("Springfield Office") }
    IN { [ r EXCEPT !.incident_description = ds, !.point_of_impact = im,
                    !.company = co, !.claim_office = off ] :
             r \in { EmptyPartial, falsy, given, partA, partB },
             ds \in descriptions, im \in impacts,
             co \in companies, off \in offices }

\* The draws of one call: every company and office index, with the first or
\* the last value of everything else.
SynthDraws ==
    { [ d EXCEPT !.company = c, !.office = o ] :
          d \in { DrawFirst, DrawLast },
          c \in 1..Len(COMPANY_OFFICES), o \in 1..3 }

\* synthesize_claim(partial_claim) called on its own; `returned` keeps the
\* argument, the draws and the record returned.
SynthesizeDirect ==
    /\ returned = None
    /\ \E p \in PartialClaims, d \in SynthDraws :
           returned' = Some([ partial |-> p, draw |-> d,
                              claim |-> synthesize_claim(p, d) ])
    /\ UNCHANGED <<state, pc, turn, stages, calls, failed, storeLog, trace,
                   answered, transcript>>

NextSynth == SynthesizeDirect

\* synthesizer.synthesize_claim as a function of its argument and the draws.
SpecSynth == Init /\ [][NextSynth]_vars

(* ------------------------------- properties --------------------------- *)

Last(s) == s[Len(s)]

\* a turn of thread t has run to END
TurnDone(t) == pc[t] = END

\* the classifier was called in the current turn of t, so intent_analysis
\* is this turn's classification (the forced "unknown" included)
ClassifiedAs(t, action) ==
    /\ InSeq("intent_agent", calls[t])
    /\ state[t].intent_analysis # None
    /\ state[t].intent_analysis[1].action = action

\* C1: when a turn completes, the final_response in the turn state is a
\* non-empty string, whatever the collaborators returned or raised.
C1_FinalResponseNonEmpty ==
    \A t \in Threads : TurnDone(t) => TruthyText(state[t].final_response)

\* C2: every execution of the graph reaches END from generate_response: the
\* last node run in a completed turn is generate_response.
C2_EndOnlyAfterResponse ==
    \A t \in Threads : TurnDone(t) => Last(stages[t]) = "generate_response"

\* C3: in a turn classified as retrieve with null or empty query_details the
\* query oracle and the executor are never called and the final response is
\* the fixed "please provide more specific details" text.
C3_NoDetailsShortCircuit ==
    \A t \in Threads :
        (ClassifiedAs(t, "retrieve")
         /\ ~TruthyStr(state[t].intent_analysis[1].query_details))
        => /\ ~InSeq("sql_agent", calls[t])
           /\ ~InSeq("execute_sql", calls[t])
           /\ ~InSeq("execute_sql", stages[t])
           /\ TurnDone(t) => state[t].final_response = Some(NoDetailsMessage)

C3_Witness ==
    \E t \in Threads :
        /\ TurnDone(t)
        /\ ClassifiedAs(t, "retrieve")
        /\ state[t].intent_analysis[1].query_details = Some("")
        /\ InSeq("generate_sql", stages[t])

\* query generation of the current turn of t ended in a rejection
RejectedThisTurn(t) ==
    /\ InSeq("generate_sql", stages[t])
    /\ IsInvalidSQLRequest(state[t].sql_response)

\* C4: in a turn whose query generation yields a rejection the executor is
\* never invoked and the final response is exactly the rejection's message.
C4_RejectionSkipsExecutor ==
    \A t \in Threads :
        RejectedThisTurn(t)
        => /\ ~InSeq("execute_sql", calls[t])
           /\ ~InSeq("execute_sql", stages[t])
           /\ TurnDone(t) =>
                state[t].final_response
                    = Some(state[t].sql_response[1].error_message)

C4_Witness ==
    \E t \in Threads :
        /\ TurnDone(t)
        /\ RejectedThisTurn(t)
        /\ InSeq("sql_agent", calls[t])
        /\ "sql_agent" \notin failed[t]
        /\ state[t].sql_response[1].error_message # <<>>

\* C5: every statement the engine hands to the store begins with SELECT
\* (leading whitespace and letter case aside) and contains none of DELETE,
\* UPDATE, INSERT, DROP, ALTER, CREATE, TRUNCATE in any letter case.
C5_OnlySelectReachesStore ==
    \A q \in storeLog :
        /\ StartsWith(Upper(Strip(q)), <<"S","E","L","E","C","T">>)
        /\ \A kw \in { <<"D","E","L","E","T","E">>, <<"U","P","D","A","T","E">>,
                       <<"I","N","S","E","R","T">>, <<"D","R","O","P">>,
                       <<"A","L","T","E","R">>, <<"C","R","E","A","T","E">>,
                       <<"T","R","U","N","C","A","T","E">> } :
               ~Contains(Upper(q), kw)

C5_Witness ==
    /\ SqlSelect \in storeLog
    /\ SqlLowerSelect \in storeLog

\* the failure of collaborator c in the current turn of t is recorded in the
\* turn state
FailureRecorded(t, c) ==
    CASE c = "intent_agent" ->
             /\ state[t].intent_analysis # None
             /\ state[t].intent_analysis[1].action = "unknown"
      [] c = "extraction_agent" ->
             /\ state[t].claim_extraction = None
             /\ InSeq("post_claim", stages[t]) => TruthyText(state[t].post_error)
      [] c = "sql_agent" -> IsInvalidSQLRequest(state[t].sql_response)
      [] c = "execute_sql" -> TruthyText(state[t].sql_error)
      [] c = "synthesize_claim" -> state[t].synthesized_claim = None
      [] c = "post" -> TruthyText(state[t].post_error)

\* the edge by which the stage that called c is left when c has failed
EdgeAfterFailure(c) ==
    CASE c = "intent_agent" -> "generate_response"
      [] c = "extraction_agent" -> "synthesize_claim"
      [] c = "sql_agent" -> "generate_response"
      [] c = "execute_sql" -> "generate_response"
      [] c = "synthesize_claim" -> "post_claim"
      [] c = "post" -> "generate_response"

StageOf(c) ==
    CASE c = "intent_agent" -> "analyze_message"
      [] c = "extraction_agent" -> "analyze_message"
      [] c = "sql_agent" -> "generate_sql"
      [] c = "execute_sql" -> "execute_sql"
      [] c = "synthesize_claim" -> "synthesize_claim"
      [] c = "post" -> "post_claim"

\* C6: when a collaborator call fails the failure is recorded in the turn
\* state, the failing stage is left by its outgoing edge, and the turn ends
\* through the responding stage with a final response.
C6_FailureIsData ==
    \A t \in Threads : \A c \in failed[t] :
        /\ FailureRecorded(t, c)
        /\ pc[t] \in { "generate_sql", "execute_sql", "synthesize_claim",
                       "post_claim", "generate_response", END }
        /\ Last(stages[t]) = StageOf(c) => pc[t] = EdgeAfterFailure(c)
        /\ TurnDone(t) => /\ Last(stages[t]) = "generate_response"
                          /\ state[t].final_response # None

C6_Witness ==
    \E t \in Threads :
        /\ TurnDone(t)
        /\ "post" \in failed[t]
        /\ turn[t] = 2

\* C7: when the classification call raises, intent is action "unknown" (not
\* null), the next stage is responding and the final response is the fixed
\* clarifying prompt.
C7_ClassifierFailureIsUnknown ==
    \A t \in Threads :
        "intent_agent" \in failed[t]
        => /\ state[t].intent_analysis = Some(Intent("unknown", None))
           /\ pc[t] \in { "generate_response", END }
           /\ TurnDone(t) =>
                /\ stages[t] = <<"analyze_message", "generate_response">>
                /\ state[t].final_response = Some(ClarifyingPrompt)

C7_Witness ==
    \E t \in Threads :
        /\ TurnDone(t)
        /\ "intent_agent" \in failed[t]
        /\ turn[t] = 2
        /\ state[t].post_result # None

\* C8: in a turn classified as unknown only classification and responding
\* run, no collaborator but the classifier is called, and the final response
\* is the fixed clarifying prompt.
C8_UnknownRunsNothingElse ==
    \A t \in Threads :
        ClassifiedAs(t, "unknown")
        => /\ calls[t] = <<"intent_agent">>
           /\ stages[t] \in { <<"analyze_message">>,
                              <<"analyze_message", "generate_response">> }
           /\ TurnDone(t) => state[t].final_response = Some(ClarifyingPrompt)

C8_Witness ==
    \E t \in Threads :
        /\ TurnDone(t)
        /\ ClassifiedAs(t, "unknown")
        /\ failed[t] = {}
        /\ turn[t] = 2
        /\ state[t].sql_response # None

CreatePathPopulated(s) ==
    \/ s.claim_extraction # None
    \/ s.synthesized_claim # None
    \/ s.post_result # None
    \/ s.post_error # None

RetrievePathPopulated(s) ==
    \/ s.sql_response # None
    \/ s.sql_results # None
    \/ s.sql_error # None

\* C9: in every reachable turn state the create-path fields and the
\* retrieve-path fields are never both populated.
C9_OnePathPopulated ==
    \A t \in Threads :
        ~(CreatePathPopulated(state[t]) /\ RetrievePathPopulated(state[t]))

\* C10: at the start of every turn every turn-state field other than the
\* messages is absent.
C10_FreshStateEachTurn ==
    \A t \in Threads :
        (pc[t] = "analyze_message")
        => \A k \in DOMAIN state[t] \ { "messages" } : state[t][k] = None

\* number of node runs of the current turn of t whose returned dict has `key`
WritesOf(t, key) ==
    Cardinality({ i \in 1..Len(trace[t]) : key \in trace[t][i].keys })

\* C11: when a turn has ended, exactly one node run of that turn has written
\* final_response.
C11_FinalResponseWrittenOnce ==
    \A t \in Threads : TurnDone(t) => WritesOf(t, "final_response") = 1

RespondedAs(t, action) ==
    /\ TurnDone(t)
    /\ InSeq("generate_response", stages[t])
    /\ state[t].intent_analysis # None
    /\ state[t].intent_analysis[1].action = action

\* text[from..] is exactly `part`
HasAt(text, from, part) ==
    /\ Len(text) >= from + Len(part) - 1
    /\ SubSeq(text, from, from + Len(part) - 1) = part

\* number of occurrences of the fragment in the text
CountOf(fragment, text) ==
    Cardinality({ i \in 1..Len(text) : text[i] = fragment })

\* C13: in a create turn the final response is: the error text with
\* post_error when post_error is set; else the success text with the id and
\* every field of the stored record when post_result carries an 'id'; else the
\* synthesized record with the 'unclear confirmation' caveat when
\* synthesized_claim is present; else the generic failure text.
C13_CreateResponseOrder ==
    \A t \in Threads :
        RespondedAs(t, "create") =>
            LET s == state[t]
                r == s.final_response[1]
            IN IF s.post_error # None /\ s.post_error[1] # <<>>
               THEN /\ Head(r) = "I tried to create the claim, but encountered an error: "
                    /\ HasAt(r, 2, s.post_error[1])
               ELSE IF s.post_result # None /\ HasKey(s.post_result[1], "id")
               THEN /\ Head(r) = "Successfully created claim with ID: '"
                    /\ r[2] = Get(s.post_result[1], "id", "")
                    /\ \A i \in 1..Len(s.post_result[1]) :
                           InSeq(s.post_result[1][i][2], r)
               ELSE IF s.synthesized_claim # None
               THEN /\ Head(r) = "Claim was synthesized, but confirmation from the API was unclear. Details:\n~~~json\n"
                    /\ InSeq(s.synthesized_claim[1].policy_number, r)
               ELSE r = CreateFailedResponse

\* a create turn whose submission returned the stored record with its id
C13_Witness ==
    /\ RespondedAs("t1", "create")
    /\ state["t1"].post_error = None
    /\ state["t1"].synthesized_claim # None
    /\ state["t1"].post_result = Some(StoredClaim)
    /\ InSeq("CLM-TEST1", state["t1"].final_response[1])

\* C14: in a retrieve turn the final response is: the rejection's message
\* when the query outcome is a rejection; else the database-error text with
\* sql_error when sql_error is set; else the fixed 'couldn't find any claims'
\* text when sql_results is an empty list; else one line per row when
\* sql_results is non-empty; else the 'couldn't retrieve the results' text.
C14_RetrieveResponseOrder ==
    \A t \in Threads :
        RespondedAs(t, "retrieve") =>
            LET s == state[t]
                r == s.final_response[1]
            IN IF IsInvalidSQLRequest(s.sql_response)
               THEN r = s.sql_response[1].error_message
               ELSE IF s.sql_error # None /\ s.sql_error[1] # <<>>
               THEN /\ Head(r) = "I tried to retrieve the claims, but encountered a database error: "
                    /\ Tail(r) = s.sql_error[1]
               ELSE IF s.sql_results = Some(<<>>)
               THEN r = <<"I couldn't find any claims matching your criteria.">>
               ELSE IF s.sql_results # None
               THEN /\ Head(r) = "Found the following claim(s):\n"
                    /\ CountOf("- Claim ID: '", r) = Len(s.sql_results[1])
                    /\ CountOf("\n", r) = Len(s.sql_results[1]) - 1
               ELSE r = <<"I generated a query for your request, but couldn't retrieve the results.">>

\* a retrieve turn whose query ran without error and found no row
C14_Witness ==
    /\ RespondedAs("t1", "retrieve")
    /\ InSeq("execute_sql", calls["t1"])
    /\ state["t1"].sql_error = None
    /\ state["t1"].sql_results = Some(<<>>)
    /\ state["t1"].final_response = Some(NoClaimsFoundResponse)

\* C15: once synthesize_claim has run in a turn and produced no record, the
\* turn does not enter post_claim: the next node is generate_response.
C15_NoRecordSkipsSubmitting ==
    \A t \in Threads :
        (InSeq("synthesize_claim", stages[t]) /\ state[t].synthesized_claim = None)
        => /\ pc[t] # "post_claim"
           /\ ~InSeq("post_claim", stages[t])

\* C16: in every turn the claims API is called at most once; when that call
\* fails, post_error holds the failure (and post_result nothing) from then on,
\* and the turn's final response is the error text with post_error in it.
C16_SubmitAtMostOnce ==
    \A t \in Threads :
        /\ Cardinality({ i \in 1..Len(calls[t]) : calls[t][i] = "post" }) <= 1
        /\ "post" \in failed[t] =>
              /\ state[t].post_error # None
              /\ state[t].post_error[1] # <<>>
              /\ state[t].post_result = None
              /\ TurnDone(t) =>
                    /\ Head(state[t].final_response[1])
                          = "I tried to create the claim, but encountered an error: "
                    /\ HasAt(state[t].final_response[1], 2, state[t].post_error[1])

\* a turn has ended whose submission was refused with status 409
C16_Witness ==
    /\ TurnDone("t1")
    /\ "post" \in failed["t1"]
    /\ calls["t1"] = <<"intent_agent", "extraction_agent", "synthesize_claim", "post">>
    /\ InSeq("409", state["t1"].post_error[1])
    /\ InSeq("409", state["t1"].final_response[1])

\* the current turn of t has entered a node or called a collaborator of the
\* create path
UsesCreatePath(t) ==
    \/ \E n \in { "synthesize_claim", "post_claim" } : InSeq(n, stages[t])
    \/ \E c \in { "extraction_agent", "synthesize_claim", "post" } :
          InSeq(c, calls[t])

\* the same for the retrieve path
UsesRetrievePath(t) ==
    \/ \E n \in { "generate_sql", "execute_sql" } : InSeq(n, stages[t])
    \/ \E c \in { "sql_agent", "execute_sql" } : InSeq(c, calls[t])

\* C17: a turn uses the create path (extraction oracle, synthesizer,
\* submitter) only when the intent is create, the retrieve path (query oracle,
\* executor) only when the intent is retrieve, and never both.
C17_PathFixedByIntent ==
    \A t \in Threads :
        /\ UsesCreatePath(t) =>
              /\ state[t].intent_analysis # None
              /\ state[t].intent_analysis[1].action = "create"
        /\ UsesRetrievePath(t) =>
              /\ state[t].intent_analysis # None
              /\ state[t].intent_analysis[1].action = "retrieve"
        /\ ~(UsesCreatePath(t) /\ UsesRetrievePath(t))

\* the second turn of a session submits a claim after its first turn ran a
\* query
C17_Witness ==
    /\ turn["t1"] = 2
    /\ ClassifiedAs("t1", "create")
    /\ InSeq("post", calls["t1"])
    /\ IsSQLQuery(state["t1"].sql_response)
    /\ state["t1"].sql_results # None

\* the query text is not read-only: it does not start with SELECT, or holds
\* a mutating keyword
ViolatesReadOnlyPolicy(text) ==
    \/ ~StartsWith(Upper(Strip(text)), <<"S","E","L","E","C","T">>)
    \/ \E k \in forbidden_keywords : Contains(Upper(text), k)

\* C18: when the query text the language model answered in this turn is not
\* read-only, the turn's sql_response is a rejection, execute_sql is neither
\* entered nor called and the text never reaches the store, and the turn's
\* final response is that rejection's message.
C18_PolicyViolationRejected ==
    \A t \in Threads :
        (/\ answered[t] # None
         /\ answered[t][1].kind = "sql"
         /\ ViolatesReadOnlyPolicy(answered[t][1].text))
        => /\ IsInvalidSQLRequest(state[t].sql_response)
           /\ ~InSeq("execute_sql", stages[t])
           /\ ~InSeq("execute_sql", calls[t])
           /\ pc[t] # "execute_sql"
           /\ answered[t][1].text \notin storeLog
           /\ TurnDone(t) =>
                 /\ state[t].final_response
                       = Some(state[t].sql_response[1].error_message)
                 /\ Head(state[t].final_response[1]) = "Failed to generate SQL: "

\* a turn has ended in which the language model answered a SELECT followed
\* by a DROP
C18_Witness ==
    /\ TurnDone("t1")
    /\ answered["t1"] = Some([kind |-> "sql", text |-> SqlSelectThenDrop])
    /\ IsInvalidSQLRequest(state["t1"].sql_response)
    /\ Head(state["t1"].final_response[1]) = "Failed to generate SQL: "

\* C19: a direct call of execute_sql with a statement that, trimmed and
\* upper-cased, does not start with SELECT returns an empty row list and the
\* fixed error, raises nothing, and the statement has not reached the store.
C19_NonSelectRefused ==
    (/\ returned # None
     /\ ~StartsWith(Upper(Strip(returned[1].query)), <<"S","E","L","E","C","T">>))
    => /\ returned[1].results = <<>>
       /\ returned[1].error
             = Some(<<"Error: Only SELECT queries are allowed for retrieval.">>)
       /\ ~returned[1].raises
       /\ returned[1].query \notin storeLog

\* "DROP t;SELECT 1" has been refused after other statements were executed
C19_Witness ==
    /\ returned # None
    /\ returned[1].query = SqlDropThenSelect
    /\ returned[1].results = <<>>
    /\ returned[1].error # None
    /\ SqlSelect \in storeLog

\* everything the model keeps about session t
View(t) ==
    <<state[t], pc[t], turn[t], stages[t], calls[t], failed[t], trace[t],
      answered[t]>>

\* C20: with turns of different sessions interleaved, every step belongs to
\* one session and leaves every other session's turn state, position and
\* history as they were; a turn starts from its own session's checkpoint with
\* the new message appended; a node's update changes only the keys it
\* returned, in its own session's state; and the final response is the one
\* generate_response_node computes from that session's state alone.
C20_SessionsIndependent ==
    [][ \A t \in Threads :
          View(t)' # View(t) =>
            /\ \A u \in Threads \ {t} : View(u)' = View(u)
            /\ turn'[t] # turn[t] =>
                  /\ state'[t].messages = Append(state[t].messages, "human")
                  /\ Len(state'[t].messages) = turn'[t]
                  /\ \A k \in DOMAIN state[t] \ {"messages"} :
                        state'[t][k] = state[t][k]
            /\ turn'[t] = turn[t] =>
                  /\ \A k \in DOMAIN state[t] \ Last(trace'[t]).keys :
                        state'[t][k] = state[t][k]
                  /\ pc[t] = "generate_response" =>
                        state'[t].final_response = Some(ResponseText(state[t]))
      ]_vars

\* two sessions are in the middle of their turns at the same time, one on
\* the create path and one on the retrieve path
C20_Witness ==
    /\ pc["t1"] = "post_claim"
    /\ pc["t2"] = "execute_sql"
    /\ state["t1"].synthesized_claim # None
    /\ state["t1"].sql_response = None
    /\ state["t2"].synthesized_claim = None

\* content that shows something: a non-empty text, a table with a row
NonEmptyContent(c) ==
    IF c.type = "str" THEN c.text # <<>> /\ \A i \in 1..Len(c.text) : c.text[i] # ""
    ELSE c.rows # <<>>

\* C21: when the handling of a prompt is over, the transcript holds, after
\* the greeting, for every prompt the user's message directly followed by
\* exactly one assistant message, whose content is not empty.
C21_OneNonEmptyReply ==
    \A t \in Threads :
        pc[t] = "idle" =>
            /\ Len(transcript[t]) = 1 + 2 * turn[t]
            /\ \A i \in 1..turn[t] :
                  /\ transcript[t][2 * i].role = "user"
                  /\ transcript[t][2 * i + 1].role = "assistant"
                  /\ NonEmptyContent(transcript[t][2 * i + 1].content)

\* C22: every collaborator call has a bounded wait: no turn is ever left
\* suspended in a call that nothing ends, from where it cannot reach its
\* final response.
C22_NoEndlessWait ==
    \A t \in Threads : pc[t] # "waiting"

\* the fields of ClaimCreate (models.py 34-46)
ClaimCreateFields ==
    { "policy_holder_name", "policy_number", "vehicle_make", "vehicle_model",
      "vehicle_year", "incident_date", "incident_description",
      "adjuster_name", "status", "company", "claim_office",
      "point_of_impact" }

\* the fields whose value is a data string
StrFields ==
    ClaimCreateFields \ { "vehicle_year", "incident_date",
                          "incident_description" }

\* synthesize_claim has returned for the partial record p
Synthesized == returned # None

\* C23: for every partial record, whatever subset of its fields is present,
\* the record synthesize_claim returns has all twelve fields of ClaimCreate,
\* each holding a value of its type and none holding None.
C23_AllFieldsPopulated ==
    Synthesized =>
        LET c == returned[1].claim
        IN /\ DOMAIN c = ClaimCreateFields
           /\ \A f \in StrFields : c[f] \in STRING
           /\ c.vehicle_year \in Nat
           /\ c.incident_date \in STRING
           /\ Len(c.incident_description) > 0

\* C23 witness: a record returned for the partial record with no field.
C23_Witness ==
    /\ Synthesized
    /\ returned[1].partial = EmptyPartial
    /\ DOMAIN returned[1].claim = ClaimCreateFields

\* (company, office) is a pair of COMPANY_OFFICES
IsReferencePair(company, office) ==
    \E i \in 1..Len(COMPANY_OFFICES) :
        /\ COMPANY_OFFICES[i][1] = company
        /\ \E k \in 1..Len(COMPANY_OFFICES[i][2]) :
               COMPANY_OFFICES[i][2][k] = office

\* C24: for every partial record and every outcome of the draws, the company
\* of the synthesized record is a key of COMPANY_OFFICES and its office is in
\* that company's list.
C24_PairInReferenceTable ==
    Synthesized =>
        IsReferencePair(returned[1].claim.company,
                        returned[1].claim.claim_office)

\* C24 witness: a record returned for a known company given with the office
\* of another company.
C24_Witness ==
    /\ Synthesized
    /\ returned[1].partial.company = Some("Beta Insurance")
    /\ returned[1].partial.claim_office = Some("Chicago Office")
    /\ returned[1].claim.company = "Beta Insurance"

\* the partial record gives a company and an office that are a reference pair
GivesReferencePair(p) ==
    /\ TruthyStr(p.company)
    /\ TruthyStr(p.claim_office)
    /\ IsReferencePair(p.company[1], p.claim_office[1])

\* C25: when the partial record's company and office already are a pair of
\* the reference table, the synthesized record has exactly that company and
\* that office, whatever the draws.
C25_ReferencePairKept ==
    Synthesized /\ GivesReferencePair(returned[1].partial) =>
        /\ returned[1].claim.company = returned[1].partial.company[1]
        /\ returned[1].claim.claim_office = returned[1].partial.claim_office[1]

\* C25 witness: a reference pair given, the draws pointing at another company
\* and office, the pair returned.
C25_Witness ==
    /\ Synthesized
    /\ returned[1].partial.company = Some("Beta Insurance")
    /\ returned[1].partial.claim_office = Some("Miami Office")
    /\ returned[1].draw.company = 1
    /\ returned[1].draw.office = 1
    /\ returned[1].claim.claim_office = "Miami Office"

\* every field of the partial record holds a valid value: non-empty text, a
\* year other than 0, a date, company and office a reference pair
FullyGiven(p) ==
    /\ \A f \in StrFields : TruthyStr(p[f])
    /\ TruthyText(p.incident_description)
    /\ p.vehicle_year # None /\ p.vehicle_year[1] # 0
    /\ p.incident_date # None
    /\ IsReferencePair(p.company[1], p.claim_office[1])

\* C26: when all twelve fields of the partial record hold valid values, the
\* synthesized record equals the partial record field for field, whatever the
\* draws.
C26_FullRecordRoundTrip ==
    Synthesized /\ FullyGiven(returned[1].partial) =>
        returned[1].claim =
            [ f \in ClaimCreateFields |-> returned[1].partial[f][1] ]

\* C26 witness: a fully given record returned under the last draws.
C26_Witness ==
    /\ Synthesized
    /\ FullyGiven(returned[1].partial)
    /\ returned[1].draw.vehicle = 9
    /\ returned[1].claim.vehicle_year = 2015

\* the text fields of PartialClaim
TextFields == StrFields \cup { "incident_description" }

\* p with the absent text field f replaced by the empty string
WithEmpty(p, f) ==
    [ p EXCEPT ![f] = IF f = "incident_description"
                      THEN Some(<<>>) ELSE Some("") ]

\* C27: for every partial record and every text field that is absent, putting
\* the empty string in its place gives, under the same draws, the same record,
\* hence the same set of records over all draws; this includes description,
\* impact, company and office.
C27_EmptySameAsAbsent ==
    Synthesized =>
        \A f \in TextFields :
            returned[1].partial[f] = None =>
                synthesize_claim(WithEmpty(returned[1].partial, f),
                                 returned[1].draw) = returned[1].claim

\* C27 witness: a record returned for a partial record without description,
\* impact and company but with an office, and the record for the same with an
\* empty description is the same.
C27_Witness ==
    /\ Synthesized
    /\ returned[1].partial.incident_description = None
    /\ returned[1].partial.point_of_impact = None
    /\ returned[1].partial.company = None
    /\ returned[1].partial.claim_office = Some("Miami Office")
    /\ synthesize_claim(WithEmpty(returned[1].partial, "incident_description"),
                        returned[1].draw) = returned[1].claim

\* the turn-state fields the stage owns
OwnedFields(node) ==
    CASE node = "analyze_message" -> { "intent_analysis", "claim_extraction" }
      [] node = "generate_sql" -> { "sql_response" }
      [] node = "execute_sql" -> { "sql_results", "sql_error" }
      [] node = "synthesize_claim" -> { "synthesized_claim" }
      [] node = "post_claim" -> { "post_result", "post_error" }
      [] node = "generate_response" -> { "final_response" }

\* C28: the update of every stage execution has only fields the stage owns
\* (intent and partial record: analysis; sql_response: query generation;
\* sql_results, sql_error: execution; synthesized_claim: synthesis;
\* post_result, post_error: submission; final_response: responding), so each
\* field has one writing stage, and the execution leaves every other field
\* of the turn state as it was.
C28_StagesWriteOwnFields ==
    [][ \A t \in Threads :
            Len(trace'[t]) = Len(trace[t]) + 1 =>
                LET e == trace'[t][Len(trace'[t])]
                IN /\ e.keys \subseteq OwnedFields(e.node)
                   /\ \A k \in DOMAIN state[t] \ OwnedFields(e.node) :
                          state'[t][k] = state[t][k] ]_vars

\* the text fields whose extracted value is passed on as it is
PassedOnStrFields ==
    { "policy_holder_name", "policy_number", "vehicle_make", "vehicle_model",
      "adjuster_name", "status", "point_of_impact" }

\* C29 as stated: for name, policy number, make, model, year, incident date,
\* adjuster, status and point of impact, a value the partial record carries is
\* the value of the synthesized record, every year included; a present
\* impact wins with or without a description.
C29_ExtractedValueWins ==
    Synthesized =>
        LET p == returned[1].partial
            c == returned[1].claim
        IN /\ \A f \in PassedOnStrFields : TruthyStr(p[f]) => c[f] = p[f][1]
           /\ p.vehicle_year # None => c.vehicle_year = p.vehicle_year[1]
           /\ p.incident_date # None => c.incident_date = p.incident_date[1]

\* C29 amended: the same for a non-empty text, a date, and a year other than
\* 0; the year 0 is replaced by the year of the drawn vehicle.
C29_TruthyValueWins ==
    Synthesized =>
        LET p == returned[1].partial
            c == returned[1].claim
        IN /\ \A f \in PassedOnStrFields : TruthyStr(p[f]) => c[f] = p[f][1]
           /\ (p.vehicle_year # None /\ p.vehicle_year[1] # 0)
                  => c.vehicle_year = p.vehicle_year[1]
           /\ p.incident_date # None => c.incident_date = p.incident_date[1]
           /\ (p.vehicle_year = Some(0))
                  => c.vehicle_year = DEFAULT_VEHICLES[returned[1].draw.vehicle][3]

\* C29 witness: an impact given together with a description whose match is
\* another impact, and a year given; both are in the record returned.
C29_Witness ==
    /\ Synthesized
    /\ returned[1].partial.point_of_impact = Some("Hood")
    /\ returned[1].partial.incident_description = Some(<<"S","I","D","E">>)
    /\ returned[1].partial.vehicle_year = Some(2015)
    /\ returned[1].claim.point_of_impact = "Hood"
    /\ returned[1].claim.vehicle_year = 2015

\* one text contains the other
Overlap(a, b) == Contains(a, b) \/ Contains(b, a)

\* C30: for a description without a point of impact, the impact is that of
\* the first row of INCIDENT_IMPACT_MAPPING whose phrase contains the
\* description or is contained in it, case ignored; without such a row it is
\* one of the impacts of the table; the description is returned unchanged.
C30_ImpactFromDescription ==
    Synthesized /\ TruthyText(returned[1].partial.incident_description)
                /\ ~TruthyStr(returned[1].partial.point_of_impact) =>
        LET desc == returned[1].partial.incident_description[1]
            c == returned[1].claim
            lowered == Lower(desc)
            rows == { i \in 1..Len(INCIDENT_IMPACT_MAPPING) :
                          Overlap(LoweredPhrases[i], lowered) }
        IN /\ c.incident_description = desc
           /\ \A i \in rows :
                  (\A j \in rows : i <= j)
                      => c.point_of_impact = INCIDENT_IMPACT_MAPPING[i][2]
           /\ rows = {} =>
                  \E i \in 1..Len(INCIDENT_IMPACT_MAPPING) :
                      c.point_of_impact = INCIDENT_IMPACT_MAPPING[i][2]

\* C30 witness: "SIDE" is in the phrases of rows 7 (driver side) and 10
\* (passenger side); the impact returned is the one of row 7.
C30_Witness ==
    /\ Synthesized
    /\ returned[1].partial.incident_description = Some(<<"S","I","D","E">>)
    /\ returned[1].partial.point_of_impact = None
    /\ returned[1].claim.point_of_impact = "Driver side"
    /\ returned[1].claim.incident_description = <<"S","I","D","E">>

\* C31: when the partial record has neither a description nor a point of
\* impact, the description and the impact of the synthesized record are the
\* phrase and the impact of one and the same row of INCIDENT_IMPACT_MAPPING.
C31_IncidentAndImpactFromOneRow ==
    Synthesized /\ ~TruthyText(returned[1].partial.incident_description)
                /\ ~TruthyStr(returned[1].partial.point_of_impact) =>
        \E i \in 1..Len(INCIDENT_IMPACT_MAPPING) :
            /\ returned[1].claim.incident_description
                   = INCIDENT_IMPACT_MAPPING[i][1]
            /\ returned[1].claim.point_of_impact
                   = INCIDENT_IMPACT_MAPPING[i][2]

\* C31 witness: nothing about the incident given, row 20 drawn, and the
\* record has the impact of row 20.
C31_Witness ==
    /\ Synthesized
    /\ returned[1].partial.incident_description = None
    /\ returned[1].partial.point_of_impact = None
    /\ returned[1].draw.incident = 20
    /\ returned[1].claim.incident_description = INCIDENT_IMPACT_MAPPING[20][1]
    /\ returned[1].claim.point_of_impact = "Front bumper/Rear bumper"

\* the office is in the list of some company
OfficeListed(office) ==
    \E i \in 1..Len(COMPANY_OFFICES) :
        \E k \in 1..Len(COMPANY_OFFICES[i][2]) :
            COMPANY_OFFICES[i][2][k] = office

\* C32: without a company, an office that some company lists is kept and the
\* company is the one listing it; without a company, an office no company
\* lists is replaced by an office of the company drawn; a company that is not
\* in the table is replaced by the company drawn and the office by an office
\* drawn from its list, also when the office given is one some company lists.
C32_CompanyOfficeRepair ==
    Synthesized =>
        LET p == returned[1].partial
            c == returned[1].claim
            drawn == COMPANY_OFFICES[returned[1].draw.company]
        IN /\ (~TruthyStr(p.company) /\ TruthyStr(p.claim_office)
                  /\ OfficeListed(p.claim_office[1])) =>
                  /\ c.claim_office = p.claim_office[1]
                  /\ IsReferencePair(c.company, p.claim_office[1])
           /\ (~TruthyStr(p.company) /\ TruthyStr(p.claim_office)
                  /\ ~OfficeListed(p.claim_office[1])) =>
                  /\ c.company = drawn[1]
                  /\ c.claim_office = drawn[2][returned[1].draw.office]
           /\ (TruthyStr(p.company)
                  /\ \A i \in 1..Len(COMPANY_OFFICES) :
                         COMPANY_OFFICES[i][1] # p.company[1]) =>
                  /\ c.company = drawn[1]
                  /\ c.claim_office = drawn[2][returned[1].draw.office]

\* C32 witness: an unknown company given with an office Beta Insurance
\* lists; the first company and its first office are drawn and returned.
C32_Witness ==
    /\ Synthesized
    /\ returned[1].partial.company = Some("Acme Insurance")
    /\ returned[1].partial.claim_office = Some("Miami Office")
    /\ returned[1].draw.company = 1
    /\ returned[1].draw.office = 1
    /\ returned[1].claim.company = "Alpha Insurance"
    /\ returned[1].claim.claim_office = "Chicago Office"

\* what the collaborators called in the current turn of t gave: per stage
\* that called one, the calls and the fields the stage wrote from them
OutcomesOf(t) ==
    { << trace[t][i].node, trace[t][i].calls,
         [ k \in trace[t][i].keys |-> state[t][k] ] >> :
          i \in { j \in 1..Len(trace[t]) : trace[t][j].calls # <<>> } }

\* C33: the final response of a turn depends on the turn's message and on
\* what its collaborators gave, not on the turns before it: two sessions with
\* different histories whose current turns had the same message, the same
\* calls and the same outcomes end these turns with the same final_response.
C33_ResponseIndependentOfHistory ==
    ( /\ pc["t1"] = END
      /\ pc["t2"] = END
      /\ Last(state["t1"].messages) = Last(state["t2"].messages)
      /\ calls["t1"] = calls["t2"]
      /\ failed["t1"] = failed["t2"]
      /\ answered["t1"] = answered["t2"]
      /\ OutcomesOf("t1") = OutcomesOf("t2") )
        => state["t1"].final_response = state["t2"].final_response

\* the submitter is called only for a record synthesized in the same turn;
\* without one post_claim calls nothing and sets the fixed post_error
PostOnlyOfSynthesized(t) ==
    /\ InSeq("post", calls[t]) =>
          /\ InSeq("synthesize_claim", stages[t])
          /\ InSeq("synthesize_claim", calls[t])
          /\ "synthesize_claim" \notin failed[t]
          /\ state[t].synthesized_claim # None
    /\ (InSeq("post_claim", stages[t]) /\ state[t].synthesized_claim = None) =>
          /\ ~InSeq("post", calls[t])
          /\ state[t].post_result = None
          /\ state[t].post_error = Some(<<"No synthesized claim data to post.">>)
    /\ state[t].final_response # Some(CreateFailedResponse)

\* the turn of t is over and its intent is create
CreateTurnDone(t) ==
    /\ TurnDone(t)
    /\ state[t].intent_analysis # None
    /\ state[t].intent_analysis[1].action = "create"

C35_NonUserMessageEndsTurn ==
    \A t \in Threads :
        ( /\ state[t].messages # <<>>
          /\ Last(state[t].messages) # "human"
          /\ stages[t] # <<>> ) =>
            /\ stages[t] = <<"analyze_message">>
            /\ calls[t] = <<>>
            /\ pc[t] = END
            /\ state[t].final_response
                   = Some(<<"Internal error: Expected user message.">>)

\* the stages that lie between analysis and responding
PathStages == { "generate_sql", "execute_sql", "synthesize_claim", "post_claim" }

\* the turn of t stands before a stage of the graph; the stage runs for
\* every answer and every failure of its collaborator
BeforeStage(t) ==
    pc[t] \in { "analyze_message", "generate_response" } \cup PathStages

\* C36: every turn terminates when its collaborators return or fail: no stage
\* runs twice in a turn, a turn runs at most four stages (analysis first, at
\* most two path stages, responding last), the turn is over after the fourth,
\* and until END is reached the turn stands before a stage that has not run.
C36_TurnEndsWithinFourStages ==
    \A t \in Threads :
        /\ Len(stages[t]) <= 4
        /\ \A i, j \in 1..Len(stages[t]) : i # j => stages[t][i] # stages[t][j]
        /\ \A i \in 1..Len(stages[t]) :
              \/ i = 1 /\ stages[t][i] = "analyze_message"
              \/ i \in 2..3 /\ stages[t][i] \in PathStages
              \/ i > 1 /\ stages[t][i] = "generate_response"
                       /\ i = Len(stages[t]) /\ pc[t] = END
        /\ Len(stages[t]) = 4 => pc[t] = END
        /\ pc[t] \notin { "idle", END } =>
              /\ BeforeStage(t)
              /\ \A i \in 1..Len(stages[t]) : stages[t][i] # pc[t]

\* C36 witness: a turn that ran four stages and is over.
C36_Witness ==
    /\ pc["t1"] = END
    /\ stages["t1"] = <<"analyze_message", "generate_sql", "execute_sql",
                        "generate_response">>

=============================================================================
